---------------------------- MODULE Spec2Model ----------------------------
(***************************************************************************)
(* Fire-danger index engine of the forest-fire forecasting service         *)
(* (backend/app/fire_index.py) and the callers that thread its Nesterov    *)
(* accumulator.                                                            *)
(*                                                                         *)
(* Numbers.  The engine computes on IEEE doubles.  Here a real x is the    *)
(* integer round(x * Scale), Scale = 10^4, and every product and quotient  *)
(* is rounded to that grid; exp, ln, powers and square roots are series    *)
(* on the same grid.  A value the engine returns through round(.., 2) is   *)
(* an integer number of hundredths.  All intermediate integers stay below  *)
(* 2^31.  On the observation grids used below the model agrees with the    *)
(* double evaluation to about 1e-3 relative (FFMC within 0.6 points).      *)
(***************************************************************************)
EXTENDS Integers, Sequences, FiniteSets, TLC

VARIABLES
    pc,       \* "idle", "first", "between", "varied", "repeated", "chained"
    pending,  \* the call requested and not yet executed: function, arguments
    call,     \* the most recent engine call: function, arguments, returned value
    probe,    \* an earlier call kept for comparison with the most recent one
    acc,      \* acc[c]: the Nesterov index caller c holds for its location
    log,      \* the days processed so far, in order: <<caller, observation>>
    zones,        \* table monitoring_zones: the names, in insertion order
    predictions,  \* table predictions: the stored records, in insertion order
    response,     \* the answer to the most recent HTTP request
    invoked       \* the observations the engine was invoked with, in order

vars == <<pc, pending, call, probe, acc, log, zones, predictions, response, invoked>>

Scale == 10 ^ 4

\* The two floats that are not ordinary numbers, as marks beyond every value
\* of the grid: nan (what inf * 0 or a fractional power of a negative float
\* gives) and inf (float('inf') as an argument, exp of it)
NotANumber == -(214748 * Scale)
Infinity   == 214748 * Scale

\* Python's max(a, b) and min(a, b): the first argument is kept unless the
\* second compares greater (less), and every comparison with nan is False
Max(a, b) == [x, y \in Int |-> IF x # NotANumber /\ y # NotANumber /\ y > x THEN y ELSE x][a, b]
Min(a, b) == [x, y \in Int |-> IF x # NotANumber /\ y # NotANumber /\ y < x THEN y ELSE x][a, b]

\* a / d rounded to the nearest integer, d > 0
RoundDiv == [a, d \in Int |-> (a \div d) + (IF 2 * (a % d) >= d THEN 1 ELSE 0)]

\* decimal literal n * 10^-d, e.g. Dec(611, 2) is 6.11
Dec(n, d) == RoundDiv[n * Scale, 10 ^ d]

\* x * y on the grid (two limbs each, so that no partial product overflows)
Mul == [a, b \in Int |->
    LET qa == a \div Scale  ra == a % Scale
        qb == b \div Scale  rb == b % Scale
    IN  qa * qb * Scale + qa * rb + ra * qb + RoundDiv[ra * rb, Scale]]

\* x / y on the grid, y > 0 (long division, two digits of base 100)
Div == [a, b \in Int |->
    LET q  == a \div b
        r1 == (a % b) * 100
        r3 == (r1 % b) * 100
    IN  q * Scale + (r1 \div b) * 100 + (r3 \div b)
          + (IF 2 * (r3 % b) >= b THEN 1 ELSE 0)]

\* round(x, 2): the number of hundredths nearest to x
\* (nan and inf round to themselves)
Round2(x) == [v \in Int |-> IF v = NotANumber \/ v = Infinity THEN v ELSE RoundDiv[v, 100]][x]

\* a returned number of hundredths as a real on the grid
Hundredths(c) == [v \in Int |-> IF v = NotANumber \/ v = Infinity THEN v ELSE v * 100][c]

(***************************************************************************)
(* numpy / Python float primitives: np.exp, **, np.sqrt                     *)
(***************************************************************************)
ExpTerms[f, k, term, sum \in Int] ==
    IF term = 0 THEN sum
    ELSE ExpTerms[f, k + 1, RoundDiv[term * f, k * Scale], sum + term]

\* exp(f) for 0 <= f <= 1 by its power series
ExpSeries == [f \in Int |-> ExpTerms[f, 1, Scale, 0]]

E1 == ExpSeries[Scale]

EPow[n \in Int] == IF n = 0 THEN Scale ELSE Mul[EPow[n - 1], E1]

ExpPos == [x \in Int |-> Mul[EPow[x \div Scale], ExpSeries[x % Scale]]]

\* np.exp(x); below exp(-12) the value is under half a grid step
Exp == [x \in Int |->
    IF x >= 0 THEN ExpPos[x]
    ELSE IF x < -12 * Scale THEN 0
    ELSE Div[Scale, ExpPos[-x]]]

AtanhTerms[u2, k, term, sum \in Int] ==
    IF term = 0 THEN sum
    ELSE AtanhTerms[u2, k + 2, Mul[term, u2], sum + RoundDiv[term, k]]

\* ln(z) for 1 <= z < e: 2 * atanh((z - 1) / (z + 1))
LnNorm == [z \in Int |->
    LET u == Div[z - Scale, z + Scale]
    IN  2 * AtanhTerms[Mul[u, u], 1, u, 0]]

LnRed[x, n \in Int] ==
    IF x >= E1 THEN LnRed[Div[x, E1], n + 1]
    ELSE IF x < Scale THEN LnRed[Mul[x, E1], n - 1]
    ELSE n * Scale + LnNorm[x]

\* natural logarithm, x > 0
Ln == [x \in Int |-> LnRed[x, 0]]

LN10 == Ln[10 * Scale]

\* x ** y for x >= 0, y > 0
Pow == [x, y \in Int |-> IF x = 0 THEN 0 ELSE Exp[Mul[y, Ln[x]]]]

\* 10 ** z
Pow10 == [z \in Int |-> Exp[Mul[z, LN10]]]

SqrtIter[x, s \in Int] ==
    LET t == (s + Div[x, s]) \div 2
    IN  IF t - s <= 1 /\ s - t <= 1 THEN t ELSE SqrtIter[x, t]

\* np.sqrt(x), x >= 0 (Newton)
Sqrt == [x \in Int |-> IF x = 0 THEN 0 ELSE SqrtIter[x, Max(x, Scale)]]

(***************************************************************************)
(* fire_index.py                                                           *)
(***************************************************************************)
\* saturated vapour pressure, Magnus: 6.11 * 10 ** (7.5 * T / (237.3 + T))
SaturatedVapour == [temperature \in Int |->
    Mul[Dec(611, 2),
        Pow10[Div[Mul[Dec(75, 1), temperature], Dec(2373, 1) + temperature]]]]

\* Variant: the freezing point itself is treated as a warm day (< for <=)
calculate_humidity_deficit_below_zero(temperature, humidity) ==
    IF temperature < 0 THEN 0
    ELSE LET e_s     == SaturatedVapour[temperature]
             deficit == Div[Mul[Dec(100, 0) - humidity, e_s], Dec(100, 0)]
         IN  Max(0, deficit)

\* Variant: the deficit grows with the humidity (humidity for 100 - humidity)
calculate_humidity_deficit_of_humidity(temperature, humidity) ==
    IF temperature <= 0 THEN 0
    ELSE LET e_s     == SaturatedVapour[temperature]
             deficit == Div[Mul[humidity, e_s], Dec(100, 0)]
         IN  Max(0, deficit)

calculate_humidity_deficit(temperature, humidity) ==
    IF temperature <= 0 THEN 0
    ELSE LET e_s     == SaturatedVapour[temperature]
             deficit == Div[Mul[Dec(100, 0) - humidity, e_s], Dec(100, 0)]
         IN  Max(0, deficit)

\* the day's contribution: temperature * deficit on a warm day, else 0
DailyIncrement(temperature, humidity) ==
    IF temperature > 0
    THEN Mul[temperature, calculate_humidity_deficit(temperature, humidity)]
    ELSE 0

\* Variant: only more than 3.0 mm of rain resets (> for >=)
calculate_nesterov_index_reset_above(temperature, humidity, precipitation, previous_index) ==
    IF precipitation > Dec(30, 1) THEN 0
    ELSE Round2(Hundredths(previous_index)
                + DailyIncrement(temperature, humidity))

\* Variant: the day's increment is returned without the previous index
calculate_nesterov_index_no_accumulation(temperature, humidity, precipitation, previous_index) ==
    IF precipitation >= Dec(30, 1) THEN 0
    ELSE Round2(DailyIncrement(temperature, humidity))

\* Variant: an engine with a memory, which adds the day's increment to the
\* result of its last direct call instead of the previous_index it is given
calculate_nesterov_index_remembering(temperature, humidity, precipitation, previous_index) ==
    IF precipitation >= Dec(30, 1) THEN 0
    ELSE Round2(Hundredths(IF call.fn = "calculate_nesterov_index"
                           THEN call.result ELSE previous_index)
                + DailyIncrement(temperature, humidity))

\* Variant: an engine with one accumulator shared by all callers, the index
\* of the last assessment
calculate_nesterov_index_shared(temperature, humidity, precipitation, previous_index) ==
    IF precipitation >= Dec(30, 1) THEN 0
    ELSE Round2(Hundredths(IF call.fn = "assessment"
                           THEN call.result.nesterov_index ELSE previous_index)
                + DailyIncrement(temperature, humidity))

\* previous_index and the result are hundredths
\* Variant: the contribution is temperature * (100 - humidity) * e_s / 100 on
\* every day, the cold ones included (neither temperature guard is applied)
calculate_nesterov_index_cold_days(temperature, humidity, precipitation, previous_index) ==
    IF precipitation >= Dec(30, 1) THEN 0
    ELSE LET deficit         == Div[Mul[Dec(100, 0) - humidity,
                                        SaturatedVapour[temperature]], Dec(100, 0)]
             daily_increment == Mul[temperature, deficit]
             nesterov_index  == Hundredths(previous_index) + daily_increment
         IN  Round2(nesterov_index)

\* Variant: the sum is cut to 2 decimals (floor) instead of rounded to the
\* nearest hundredth
calculate_nesterov_index_truncated(temperature, humidity, precipitation, previous_index) ==
    IF precipitation >= Dec(30, 1) THEN 0
    ELSE (Hundredths(previous_index) + DailyIncrement(temperature, humidity)) \div 100

calculate_nesterov_index(temperature, humidity, precipitation, previous_index) ==
    IF precipitation >= Dec(30, 1) THEN 0
    ELSE LET deficit         == calculate_humidity_deficit(temperature, humidity)
             daily_increment == IF temperature > 0
                                THEN Mul[temperature, deficit] ELSE 0
             nesterov_index  == Hundredths(previous_index) + daily_increment
         IN  Round2(nesterov_index)

\* rain absorbed by fuel of moisture mo: the effective rainfall rf raises mo,
\* with a quadratic term above 150, capped at 250
RainMoisture == [mo, precipitation \in Int |->
    LET rf   == precipitation - Dec(5, 1)
        rain == Mul[Mul[Mul[Dec(425, 1), rf],
                        Exp[Div[-Dec(100, 0), Dec(251, 0) - mo]]],
                    Scale - Exp[Div[-Dec(693, 2), rf]]]
        over == mo - Dec(150, 0)
    IN  IF precipitation = Infinity
        \* rf is inf and 1 - exp(-6.93 / rf) is 0: the product is nan,
        \* mo + nan is nan, and min(nan, 250) keeps its first argument
        THEN Min(NotANumber, Dec(250, 0))
        ELSE IF precipitation > Dec(5, 1)
        THEN Min(IF mo <= Dec(150, 0)
                 THEN mo + rain
                 ELSE mo + rain + Mul[Mul[Dec(15, 4), Mul[over, over]], Sqrt[rf]],
                 Dec(250, 0))
        ELSE mo]

\* 0.18 * (21.1 - T) * (1 - exp(-0.115 * H)), the term ed and ew share
TemperatureTerm == [temperature, humidity \in Int |->
    Mul[Mul[Dec(18, 2), Dec(211, 1) - temperature],
        Scale - Exp[Mul[-Dec(115, 3), humidity]]]]

\* equilibrium moisture: a * H ** b + c * exp((H - 100) / 10) + the shared term;
\* ed has (0.942, 0.679, 11), ew has (0.618, 0.753, 10)
Equilibrium == [a, b, c, temperature, humidity \in Int |->
    Mul[a, Pow[humidity, b]]
    + Mul[c, Exp[Div[humidity - Dec(100, 0), Dec(10, 0)]]]
    + TemperatureTerm[temperature, humidity]]

\* drying / wetting rate: ko (kl) from the humidity fraction h, then kd (kw)
MoistureRate == [h, temperature, wind_speed \in Int |->
    LET ko == Mul[Dec(424, 3), Scale - Pow[h, Dec(17, 1)]]
              + Mul[Mul[Dec(694, 4), Sqrt[Mul[wind_speed, Dec(36, 1)]]],
                    Scale - Pow[h, Dec(8, 0)]]
    IN  IF wind_speed = Infinity
        \* sqrt(inf) is inf; times 1 - h ** 8: nan when that is 0, else inf
        THEN IF h >= Scale THEN NotANumber ELSE Infinity
        ELSE Mul[Mul[ko, Dec(581, 3)], Exp[Mul[Dec(365, 4), temperature]]]]

\* one day of drying towards ed or of wetting towards ew
\* (a nan mo compares neither greater nor less and is returned as m; a nan
\* rate makes m nan; 10 ** -inf is 0)
DayMoisture == [mo, ed, ew, kd, kw \in Int |->
    IF mo = NotANumber THEN mo
    ELSE IF mo > ed
    THEN IF kd = NotANumber THEN NotANumber
         ELSE IF kd = Infinity THEN ed
         ELSE ed + Mul[mo - ed, Pow10[-kd]]
    ELSE IF mo < ew
    THEN IF kw = NotANumber THEN NotANumber
         ELSE IF kw = Infinity THEN ew
         ELSE ew - Mul[ew - mo, Pow10[-kw]]
    ELSE mo]

\* moisture m on the FFMC scale, clamped and rounded; the result is hundredths
FfmcScale == [m \in Int |->
    LET ffmc == IF m = NotANumber THEN NotANumber
                ELSE Div[Mul[Dec(595, 1), Dec(250, 0) - m], Dec(1472, 1) + m]
    IN  Round2(Max(0, Min(Dec(100, 0), ffmc)))]

\* Variant: the converted value is rounded without being clamped to [0, 100]
calculate_ffmc_unclamped(temperature, humidity, wind_speed, precipitation) ==
    LET m == DayMoisture[
                 RainMoisture[Dec(850, 1), precipitation],
                 Equilibrium[Dec(942, 3), Dec(679, 3), Dec(11, 0), temperature, humidity],
                 Equilibrium[Dec(618, 3), Dec(753, 3), Dec(10, 0), temperature, humidity],
                 MoistureRate[Div[humidity, Dec(100, 0)], temperature, wind_speed],
                 MoistureRate[Div[Dec(100, 0) - humidity, Dec(100, 0)],
                              temperature, wind_speed]]
    IN  Round2(Div[Mul[Dec(595, 1), Dec(250, 0) - m], Dec(1472, 1) + m])

\* Variant: the upper clamp is 101, the constant of the ISI formula
calculate_ffmc_clamped_at_101(temperature, humidity, wind_speed, precipitation) ==
    LET m == DayMoisture[
                 RainMoisture[Dec(850, 1), precipitation],
                 Equilibrium[Dec(942, 3), Dec(679, 3), Dec(11, 0), temperature, humidity],
                 Equilibrium[Dec(618, 3), Dec(753, 3), Dec(10, 0), temperature, humidity],
                 MoistureRate[Div[humidity, Dec(100, 0)], temperature, wind_speed],
                 MoistureRate[Div[Dec(100, 0) - humidity, Dec(100, 0)],
                              temperature, wind_speed]]
    IN  Round2(Max(0, Min(Dec(101, 0),
                          Div[Mul[Dec(595, 1), Dec(250, 0) - m], Dec(1472, 1) + m])))

\* the fuel moisture m after the day; mo starts from the fixed moisture 85.0
FuelMoisture(temperature, humidity, wind_speed, precipitation) ==
    DayMoisture[
        RainMoisture[Dec(850, 1), precipitation],
        Equilibrium[Dec(942, 3), Dec(679, 3), Dec(11, 0), temperature, humidity],
        Equilibrium[Dec(618, 3), Dec(753, 3), Dec(10, 0), temperature, humidity],
        MoistureRate[Div[humidity, Dec(100, 0)], temperature, wind_speed],
        MoistureRate[Div[Dec(100, 0) - humidity, Dec(100, 0)],
                     temperature, wind_speed]]

\* the result is in hundredths
calculate_ffmc(temperature, humidity, wind_speed, precipitation) ==
    FfmcScale[FuelMoisture(temperature, humidity, wind_speed, precipitation)]

\* fuel moisture recovered from the FFMC (hundredths)
IsiMoisture == [ffmc \in Int |->
    IF ffmc = NotANumber THEN NotANumber ELSE
    Div[Mul[Dec(1472, 1), Dec(101, 0) - Hundredths(ffmc)],
        Dec(595, 1) + Hundredths(ffmc)]]

\* m ** 5.31 of a negative numpy float m is nan, which passes through the
\* products and round(.., 2); exp of an infinite wind is inf, and so is its
\* product with the positive ff.
\* 0.208 * fw * ff for moisture m, with fw = exp(0.05039 * wind_kmh) and
\* ff = 91.9 * exp(-0.1386 * m) * (1 + m ** 5.31 / (4.93 * 10 ** 7)).
\* The three exponentials are multiplied in the exponent: formed one by one
\* they leave the grid (m ** 5.31 above 2^31, exp(-0.1386 * m) below 1e-4).
SpreadIndex == [wind_speed, m \in Int |->
    LET wind_kmh == Mul[wind_speed, Dec(36, 1)]
        ln_one   == Mul[Dec(5039, 5), wind_kmh] + Mul[-Dec(1386, 4), m]
        ln_pow   == Mul[Dec(531, 2), Ln[m]] - Ln[Dec(493, 2)] - 7 * LN10
    IN  IF m < 0 THEN NotANumber
        ELSE IF wind_speed = Infinity THEN Infinity
        ELSE IF m = 0 THEN Mul[Mul[Dec(208, 3), Dec(919, 1)], Exp[ln_one]]
        ELSE Mul[Mul[Dec(208, 3), Dec(919, 1)], Exp[ln_one] + Exp[ln_one + ln_pow]]]

\* ffmc and the result are hundredths
calculate_isi(wind_speed, ffmc) ==
    Round2(SpreadIndex[wind_speed, IsiMoisture[ffmc]])

\* the temperature correction of the FWI; 1 between 10 and 25 degrees
TemperatureFactor == [temperature \in Int |->
    IF temperature > Dec(25, 0)
    THEN Scale + Mul[temperature - Dec(25, 0), Dec(2, 2)]
    ELSE IF temperature < Dec(10, 0)
    THEN Max(Dec(3, 1), Div[temperature, Dec(10, 0)])
    ELSE Scale]

\* round(max(0, fwi * factor), 2).  The product is formed on thousandths: at
\* scale 10^4 the largest FWI times the largest factor passes 2^31.
\* (nan and inf times the positive factor are nan and inf)
CorrectedFwi == [fwi, factor \in Int |->
    IF fwi = NotANumber \/ fwi = Infinity THEN Round2(Max(0, fwi))
    ELSE RoundDiv[Max(0, Mul[RoundDiv[fwi, 10], factor]), 10]]

\* Variant: neither the cold-temperature factor nor the result is clamped
calculate_simplified_fwi_unclamped(temperature, humidity, wind_speed, precipitation, vegetation_moisture) ==
    LET ffmc == calculate_ffmc(temperature, humidity, wind_speed, precipitation)
        isi  == calculate_isi(wind_speed, ffmc)
        vegetation_factor    == Max(Dec(3, 1), Scale - Div[vegetation_moisture, Dec(200, 0)])
        precipitation_factor == Max(0, Scale - Div[precipitation, Dec(10, 0)])
        fwi  == Mul[Mul[Hundredths(isi), vegetation_factor], precipitation_factor]
        factor == IF temperature > Dec(25, 0)
                  THEN Scale + Mul[temperature - Dec(25, 0), Dec(2, 2)]
                  ELSE IF temperature < Dec(10, 0)
                  THEN Div[temperature, Dec(10, 0)]
                  ELSE Scale
    IN  RoundDiv[Mul[RoundDiv[fwi, 10], factor], 10]

\* a * b of two floats that are not negative: nan with a nan factor, nan for
\* inf * 0, inf for inf times a positive number
Times == [a, b \in Int |->
    IF a = NotANumber \/ b = NotANumber THEN NotANumber
    ELSE IF a = Infinity \/ b = Infinity
    THEN IF a = 0 \/ b = 0 THEN NotANumber ELSE Infinity
    ELSE Mul[a, b]]

\* max(0.3, 1 - vegetation_moisture / 200)
VegetationFactor == [vegetation_moisture \in Int |->
    Max(Dec(3, 1), Scale - Div[vegetation_moisture, Dec(200, 0)])]

\* max(0, 1 - precipitation / 10)
\* (1 - inf / 10 is -inf, below 0)
PrecipitationFactor == [precipitation \in Int |->
    IF precipitation = Infinity THEN 0
    ELSE Max(0, Scale - Div[precipitation, Dec(10, 0)])]

\* isi * vegetation_factor * precipitation_factor, before the temperature
\* correction
UncorrectedFwi(temperature, humidity, wind_speed, precipitation, vegetation_moisture) ==
    LET ffmc == calculate_ffmc(temperature, humidity, wind_speed, precipitation)
        isi  == calculate_isi(wind_speed, ffmc)
    IN  Times[Times[Hundredths(isi), VegetationFactor[vegetation_moisture]],
              PrecipitationFactor[precipitation]]

\* Variant: the cold-temperature factor is floored at 0 instead of 0.3
calculate_simplified_fwi_floor_zero(temperature, humidity, wind_speed, precipitation, vegetation_moisture) ==
    LET fwi == UncorrectedFwi(temperature, humidity, wind_speed, precipitation,
                              vegetation_moisture)
        factor == IF temperature > Dec(25, 0)
                  THEN Scale + Mul[temperature - Dec(25, 0), Dec(2, 2)]
                  ELSE IF temperature < Dec(10, 0)
                  THEN Max(0, Div[temperature, Dec(10, 0)])
                  ELSE Scale
    IN  CorrectedFwi[fwi, factor]

\* Variant: the vegetation factor is floored at 0 instead of 0.3 and rain
\* damps the index without ever extinguishing it (factor floored at 0.1)
calculate_simplified_fwi_other_floors(temperature, humidity, wind_speed, precipitation, vegetation_moisture) ==
    LET ffmc == calculate_ffmc(temperature, humidity, wind_speed, precipitation)
        isi  == calculate_isi(wind_speed, ffmc)
        vegetation_factor    == Max(0, Scale - Div[vegetation_moisture, Dec(200, 0)])
        precipitation_factor == Max(Dec(1, 1), Scale - Div[precipitation, Dec(10, 0)])
        fwi  == Mul[Mul[Hundredths(isi), vegetation_factor], precipitation_factor]
    IN  CorrectedFwi[fwi, TemperatureFactor[temperature]]

\* the result is in hundredths
calculate_simplified_fwi(temperature, humidity, wind_speed, precipitation, vegetation_moisture) ==
    CorrectedFwi[UncorrectedFwi(temperature, humidity, wind_speed, precipitation, vegetation_moisture),
                 TemperatureFactor[temperature]]

VegetationTypes == {"coniferous", "deciduous", "mixed"}

\* Variant: a type that is not in the table gets no coefficient at all (0)
get_vegetation_coefficient_no_default(vegetation_type) ==
    CASE vegetation_type = "coniferous" -> Dec(15, 1)
      [] vegetation_type = "mixed"      -> Dec(125, 2)
      [] vegetation_type = "deciduous"  -> Dec(10, 1)
      [] OTHER                          -> 0

get_vegetation_coefficient(vegetation_type) ==
    CASE vegetation_type = "coniferous" -> Dec(15, 1)
      [] vegetation_type = "mixed"      -> Dec(125, 2)
      [] vegetation_type = "deciduous"  -> Dec(10, 1)
      [] OTHER                          -> Dec(10, 1)

\* Variant: the wind correction grows below 5 m/s instead of above it
calculate_composite_index_calm(nesterov_index, fwi_index, vegetation_type, wind_speed, soil_moisture) ==
    LET normalized_nesterov == Min(Dec(100, 0), nesterov_index)
        normalized_fwi      == Hundredths(Min(100 * 100, fwi_index))
        base_index  == Mul[Dec(5, 1), normalized_nesterov]
                       + Mul[Dec(5, 1), normalized_fwi]
        veg_coef    == get_vegetation_coefficient(vegetation_type)
        wind_factor == Scale + Mul[Max(0, Dec(5, 0) - wind_speed), Dec(5, 2)]
        soil_factor == Max(Dec(5, 1), Scale - Div[soil_moisture, Dec(200, 0)])
        composite   == Mul[Mul[Mul[base_index, veg_coef], wind_factor], soil_factor]
    IN  Round2(composite)

\* Variant: the two indices enter the weighted mean as they are, without the
\* cap at 100
calculate_composite_index_unsaturated(nesterov_index, fwi_index, vegetation_type, wind_speed, soil_moisture) ==
    LET normalized_nesterov == nesterov_index
        normalized_fwi      == Hundredths(fwi_index)
        base_index  == Mul[Dec(5, 1), normalized_nesterov]
                       + Mul[Dec(5, 1), normalized_fwi]
        veg_coef    == get_vegetation_coefficient(vegetation_type)
        wind_factor == Scale + Mul[Max(0, wind_speed - Dec(5, 0)), Dec(5, 2)]
        soil_factor == Max(Dec(5, 1), Scale - Div[soil_moisture, Dec(200, 0)])
        composite   == Mul[Mul[Mul[base_index, veg_coef], wind_factor], soil_factor]
    IN  Round2(composite)

\* nesterov_index, fwi_index and the result are hundredths; nesterov_index / 100
\* on the grid is the count of hundredths itself
calculate_composite_index(nesterov_index, fwi_index, vegetation_type, wind_speed, soil_moisture) ==
    LET normalized_nesterov == Min(Dec(100, 0), nesterov_index)
        normalized_fwi      == Hundredths(Min(100 * 100, fwi_index))
        base_index  == Mul[Dec(5, 1), normalized_nesterov]
                       + Mul[Dec(5, 1), normalized_fwi]
        veg_coef    == get_vegetation_coefficient(vegetation_type)
        wind_factor == Scale + Mul[Max(0, wind_speed - Dec(5, 0)), Dec(5, 2)]
        soil_factor == Max(Dec(5, 1), Scale - Div[soil_moisture, Dec(200, 0)])
        composite   == Mul[Mul[Mul[base_index, veg_coef], wind_factor], soil_factor]
    IN  Round2(composite)

DangerLevels == {"low", "medium", "high", "extreme"}

\* Variant: the last band is missing, every index from 50 on is high
determine_danger_level_three_bands(composite_index) ==
    IF composite_index < 20 * 100
    THEN [level |-> "low", text |-> "Nizkij", color |-> "#22c55e"]
    ELSE IF composite_index < 50 * 100
    THEN [level |-> "medium", text |-> "Srednij", color |-> "#eab308"]
    ELSE [level |-> "high", text |-> "Vysokij", color |-> "#f97316"]

\* Variant: a threshold belongs to the band that ends at it (<= for <)
determine_danger_level_inclusive(composite_index) ==
    IF composite_index <= 20 * 100
    THEN [level |-> "low", text |-> "Nizkij", color |-> "#22c55e"]
    ELSE IF composite_index <= 50 * 100
    THEN [level |-> "medium", text |-> "Srednij", color |-> "#eab308"]
    ELSE IF composite_index <= 75 * 100
    THEN [level |-> "high", text |-> "Vysokij", color |-> "#f97316"]
    ELSE [level |-> "extreme", text |-> "Chrezvychajnyj", color |-> "#ef4444"]

\* Variant: the medium band carries the colour of the high band
determine_danger_level_orange(composite_index) ==
    IF composite_index < 20 * 100
    THEN [level |-> "low", text |-> "Nizkij", color |-> "#22c55e"]
    ELSE IF composite_index < 50 * 100
    THEN [level |-> "medium", text |-> "Srednij", color |-> "#f97316"]
    ELSE IF composite_index < 75 * 100
    THEN [level |-> "high", text |-> "Vysokij", color |-> "#f97316"]
    ELSE [level |-> "extreme", text |-> "Chrezvychajnyj", color |-> "#ef4444"]

\* Variant: the bands of medium and high are exchanged
determine_danger_level_bands_exchanged(composite_index) ==
    IF composite_index < 20 * 100
    THEN [level |-> "low", text |-> "Nizkij", color |-> "#22c55e"]
    ELSE IF composite_index < 50 * 100
    THEN [level |-> "high", text |-> "Vysokij", color |-> "#f97316"]
    ELSE IF composite_index < 75 * 100
    THEN [level |-> "medium", text |-> "Srednij", color |-> "#eab308"]
    ELSE [level |-> "extreme", text |-> "Chrezvychajnyj", color |-> "#ef4444"]

\* composite_index in hundredths.  The texts of the source are the Russian
\* words for low, medium, high and extreme (Cyrillic), transliterated here.
determine_danger_level(composite_index) ==
    IF composite_index < 20 * 100
    THEN [level |-> "low", text |-> "Nizkij", color |-> "#22c55e"]
    ELSE IF composite_index < 50 * 100
    THEN [level |-> "medium", text |-> "Srednij", color |-> "#eab308"]
    ELSE IF composite_index < 75 * 100
    THEN [level |-> "high", text |-> "Vysokij", color |-> "#f97316"]
    ELSE [level |-> "extreme", text |-> "Chrezvychajnyj", color |-> "#ef4444"]

\* Variant: above the high threshold the list no longer follows the level
\* alone: an index of 75 or more gets the extreme list whatever the level
get_recommendations_by_index(danger_level, composite_index) ==
    LET extreme == <<"VNIMANIE! Chrezvychajnaya pozharnaya opasnost!",
                     "Vvesti rezhim chrezvychajnoj situacii",
                     "Zapretit lyubye raboty v lesnoj zone",
                     "Mobilizovat vse protivopozharnye sily",
                     "Podgotovit evakuaciyu naselennyh punktov vblizi lesov",
                     "Opovestit vse sluzhby ekstrennogo reagirovaniya",
                     "Organizovat kruglosutochnoe dezhurstvo">>
    IN  IF composite_index >= 75 * 100 \/ danger_level = "extreme" THEN extreme
        ELSE IF danger_level = "low"
        THEN <<"Pozharnaya obstanovka v predelah normy",
               "Prodolzhat shtatnyj monitoring territorii",
               "Podderzhivat standartnyj uroven gotovnosti">>
        ELSE IF danger_level = "medium"
        THEN <<"Usilit patrulirovanie lesnyh massivov",
               "Proverit gotovnost protivopozharnogo oborudovaniya",
               "Ogranichit razvedenie kostrov v lesnoj zone",
               "Informirovat naselenie o merah predostorozhnosti">>
        ELSE IF danger_level = "high"
        THEN <<"Vvesti osobyj protivopozharnyj rezhim",
               "Zapretit poseshchenie lesov grazhdanami",
               "Organizovat dezhurstvo pozharnyh raschetov",
               "Podgotovit tehniku dlya operativnogo reagirovaniya",
               "Usilit aviapatrulirovanie territorii">>
        ELSE <<>>

\* the texts are the Russian lines of the source, transliterated;
\* composite_index is accepted and not used
get_recommendations(danger_level, composite_index) ==
    CASE danger_level = "low" ->
            <<"Pozharnaya obstanovka v predelah normy",
              "Prodolzhat shtatnyj monitoring territorii",
              "Podderzhivat standartnyj uroven gotovnosti">>
      [] danger_level = "medium" ->
            <<"Usilit patrulirovanie lesnyh massivov",
              "Proverit gotovnost protivopozharnogo oborudovaniya",
              "Ogranichit razvedenie kostrov v lesnoj zone",
              "Informirovat naselenie o merah predostorozhnosti">>
      [] danger_level = "high" ->
            <<"Vvesti osobyj protivopozharnyj rezhim",
              "Zapretit poseshchenie lesov grazhdanami",
              "Organizovat dezhurstvo pozharnyh raschetov",
              "Podgotovit tehniku dlya operativnogo reagirovaniya",
              "Usilit aviapatrulirovanie territorii">>
      [] danger_level = "extreme" ->
            <<"VNIMANIE! Chrezvychajnaya pozharnaya opasnost!",
              "Vvesti rezhim chrezvychajnoj situacii",
              "Zapretit lyubye raboty v lesnoj zone",
              "Mobilizovat vse protivopozharnye sily",
              "Podgotovit evakuaciyu naselennyh punktov vblizi lesov",
              "Opovestit vse sluzhby ekstrennogo reagirovaniya",
              "Organizovat kruglosutochnoe dezhurstvo">>
      [] OTHER -> <<>>

\* pdf_generator.py: the colour a report draws a level in
get_danger_color(level) ==
    CASE level = "low"     -> "#22c55e"
      [] level = "medium"  -> "#eab308"
      [] level = "high"    -> "#f97316"
      [] level = "extreme" -> "#ef4444"
      [] OTHER             -> "grey"

(***************************************************************************)
(* Spread-rate engine (from its specification; it is not part of           *)
(* backend/app).  Speeds, perimeter and distances are on the grid; the     *)
(* area, far smaller than the perimeter, is counted in units of 10^-8 m2   *)
(* and the area in hectares in units of 10^-10 ha.                         *)
(***************************************************************************)
\* 2 * pi
TwoPi == Dec(62832, 4)

\* Variant: the rear rate loses its constant instead of gaining it
\* (0.10 * v1 - 0.20)
calculateFireSpread_rear_minus(E, v, rho, W, t) ==
    LET v1 == Mul[Div[Mul[Mul[Dec(26, 0), E], Scale + Mul[Dec(27, 1), v]], rho],
                  Div[Dec(2, 0) + W, Dec(16, 0) + W]]
        v2 == Mul[Dec(35, 2), v1] + Dec(17, 2)
        v3 == Mul[Dec(10, 2), v1] - Dec(20, 2)
        perimeter == Mul[Mul[TwoPi,
                             Sqrt[RoundDiv[Mul[v1 + v3, v1 + v3] + Mul[v2, v2], 8]]],
                         t]
        area == Mul[RoundDiv[perimeter, 5], RoundDiv[perimeter, 5]]
    IN  [v1 |-> v1, v2 |-> v2, v3 |-> v3,
         perimeter |-> perimeter, area |-> area, areaHa |-> RoundDiv[area, 100],
         distances |-> [front |-> Mul[Mul[v1, t], Dec(60, 0)],
                        flank |-> Mul[Mul[v2, t], Dec(60, 0)],
                        rear  |-> Mul[Mul[v3, t], Dec(60, 0)]]]

\* v1 = 26 E (1 + 2.7 v)(2 + W) / (rho (16 + W)), v2 = 0.35 v1 + 0.17,
\* v3 = 0.10 v1 + 0.20, P = 2 pi sqrt(((v1 + v3)^2 + v2^2) / 8) t,
\* S = 4e-6 P^2, areaHa = S / 10000, distances = speed * t * 60.
\* S in units of 10^-8 m2 is 4e-6 * (P / Scale)^2 * 10^8 = (P / 5)^2 / Scale.
calculateFireSpread(E, v, rho, W, t) ==
    LET v1 == Mul[Div[Mul[Mul[Dec(26, 0), E], Scale + Mul[Dec(27, 1), v]], rho],
                  Div[Dec(2, 0) + W, Dec(16, 0) + W]]
        v2 == Mul[Dec(35, 2), v1] + Dec(17, 2)
        v3 == Mul[Dec(10, 2), v1] + Dec(20, 2)
        perimeter == Mul[Mul[TwoPi,
                             Sqrt[RoundDiv[Mul[v1 + v3, v1 + v3] + Mul[v2, v2], 8]]],
                         t]
        area == Mul[RoundDiv[perimeter, 5], RoundDiv[perimeter, 5]]
    IN  [v1 |-> v1, v2 |-> v2, v3 |-> v3,
         perimeter |-> perimeter, area |-> area, areaHa |-> RoundDiv[area, 100],
         distances |-> [front |-> Mul[Mul[v1, t], Dec(60, 0)],
                        flank |-> Mul[Mul[v2, t], Dec(60, 0)],
                        rear  |-> Mul[Mul[v3, t], Dec(60, 0)]]]

(***************************************************************************)
(* Argument grids of the direct calls.  The declared ranges (models.py) are *)
(* temperature [-50, 60], humidity [0, 100], wind speed [0, 50],            *)
(* precipitation >= 0, soil moisture [0, 100], vegetation moisture          *)
(* [0, 200]; the engine itself validates nothing, so the grids of the       *)
(* single functions also hold values outside them.                          *)
(***************************************************************************)
Temps      == {Dec(-50, 0), Dec(-5, 0), 0, Dec(1, 1), Dec(30, 0), Dec(60, 0)}
Hums       == {0, Dec(20, 0), Dec(80, 0), Dec(98, 0), Dec(99, 0), Dec(995, 1),
               Dec(100, 0)}
HumsWide   == Hums \cup {Dec(120, 0)}
Precs      == {0, Dec(29, 1), Dec(30, 1), Dec(10, 0)}
\* previous_index, hundredths: -7.50, 0, 1000.00, 100000.00
Prevs      == {-750, 0, 1000 * 100, 100000 * 100}

FwiTemps   == {Dec(-50, 0), 0, Dec(3, 0), Dec(5, 0), Dec(10, 0), Dec(20, 0),
               Dec(25, 0), Dec(30, 0), Dec(60, 0)}
FwiHums    == {0, Dec(50, 0), Dec(100, 0)}
FwiWinds   == {0, Dec(50, 0)}
FwiPrecs   == {0, Dec(1, 0), Dec(10, 0), Dec(15, 0)}
VegMoists  == {0, Dec(100, 0), Dec(140, 0), Dec(150, 0), Dec(200, 0)}
\* FFMC values, hundredths: 0, 48.56, 85.00, 100.00
Ffmcs      == {0, 4856, 8500, 100 * 100}
IsiWinds   == {0, Dec(5, 0), Dec(50, 0)}

\* index values, hundredths.  The engine returns a negative previous_index
\* unchanged on a day without a contribution, so a negative Nesterov index can
\* reach the composite index.
NesterovValues == {-(500 * 100), 0, 101861, 10000 * 100, 20000 * 100}
FwiValues      == {0, 593, 100 * 100, 200 * 100}
Winds          == {0, Dec(5, 0), Dec(10, 0), Dec(50, 0)}
\* soil_moisture; -50 is below the declared range [0, 100]
SoilMoists     == {Dec(-50, 0), 0, Dec(50, 0), Dec(100, 0)}
\* composite index, hundredths, around the thresholds 20, 50, 75
CompositeValues == {-500, 0, 1999, 2000, 2001, 4999, 5000, 5001,
                    7499, 7500, 7501, 1000 * 100}

\* vegetation types as they may arrive: the three of the enumeration, and
\* strings that are none of them
VegetationInputs == VegetationTypes \cup {"tundra", ""}
\* danger levels as they may arrive, "unknown" being none of the four
LevelInputs      == DangerLevels \cup {"unknown"}
\* composite index passed along with the level, hundredths
RecommendationIndices == {-500, 0, 2000, 7500, 1000 * 100}

\* SpreadInput: E in [0, 1], v in [0, 50], rho in (0, 1000], W in [0, 200],
\* t in (0, 72]; the grids stay where every intermediate is below 2^31
Emissivities   == {0, Dec(5, 1), Dec(1, 0)}
SubCanopyWinds == {0, Dec(2, 0), Dec(10, 0)}
BulkDensities  == {Dec(12, 0), Dec(1000, 0)}
FuelMoistures  == {0, Dec(15, 0), Dec(200, 0)}
ElapsedHours   == {Dec(5, 1), Dec(1, 0), Dec(8, 0)}

Functions == {"calculateFireSpread", "get_vegetation_coefficient", "get_recommendations",
              "calculate_humidity_deficit", "calculate_nesterov_index",
              "calculate_ffmc", "calculate_isi", "calculate_simplified_fwi",
              "calculate_composite_index", "determine_danger_level"}

\* the sets the arguments of a function are drawn from, in order
ArgDomains(fn) ==
    CASE fn = "calculate_humidity_deficit" -> <<Temps, HumsWide>>
      [] fn = "calculate_nesterov_index"   -> <<Temps, Hums, Precs, Prevs>>
      [] fn = "calculate_ffmc"             -> <<FwiTemps, FwiHums, FwiWinds, FwiPrecs>>
      [] fn = "calculate_isi"              -> <<IsiWinds, Ffmcs>>
      [] fn = "calculate_simplified_fwi"   ->
            <<FwiTemps, FwiHums, FwiWinds, FwiPrecs, VegMoists>>
      [] fn = "calculate_composite_index"  ->
            <<NesterovValues, FwiValues, VegetationTypes, Winds, SoilMoists>>
      [] fn = "determine_danger_level"     -> <<CompositeValues>>
      [] fn = "get_vegetation_coefficient" -> <<VegetationInputs>>
      [] fn = "calculateFireSpread"        ->
            <<Emissivities, SubCanopyWinds, BulkDensities, FuelMoistures, ElapsedHours>>
      [] fn = "get_recommendations"        -> <<LevelInputs, RecommendationIndices>>

\* the argument tuples a function is called with
CallArgs(fn) ==
    CASE fn = "calculate_humidity_deficit" -> Temps \X HumsWide
      [] fn = "calculate_nesterov_index"   -> Temps \X Hums \X Precs \X Prevs
      [] fn = "calculate_ffmc"             ->
            FwiTemps \X FwiHums \X FwiWinds \X FwiPrecs
      [] fn = "calculate_isi"              -> IsiWinds \X Ffmcs
      [] fn = "calculate_simplified_fwi"   ->
            FwiTemps \X FwiHums \X FwiWinds \X FwiPrecs \X VegMoists
      [] fn = "calculate_composite_index"  ->
            NesterovValues \X FwiValues \X VegetationTypes \X Winds \X SoilMoists
      [] fn = "determine_danger_level"     -> {<<c>> : c \in CompositeValues}
      [] fn = "get_vegetation_coefficient" -> {<<v>> : v \in VegetationInputs}
      [] fn = "calculateFireSpread"        ->
            Emissivities \X SubCanopyWinds \X BulkDensities \X FuelMoistures
                \X ElapsedHours
      [] fn = "get_recommendations"        -> LevelInputs \X RecommendationIndices

\* calls made between a call and its repetition
BetweenCalls ==
    { [fn |-> "calculate_nesterov_index", args |-> <<Dec(30, 0), Dec(20, 0), 0, 0>>],
      [fn |-> "calculate_composite_index",
       args |-> <<101861, 593, "mixed", Dec(5, 0), Dec(50, 0)>>],
      [fn |-> "determine_danger_level", args |-> <<7500>>] }

(***************************************************************************)
(* Callers that thread the Nesterov accumulator: one per location, each     *)
(* passes the index returned for a day as previous_index of its next day.   *)
(***************************************************************************)
Callers == {"north", "east"}

\* WeatherData records (models.py), the daily observations of the callers
Observations ==
    << [temperature |-> Dec(30, 0), humidity |-> Dec(20, 0),
        wind_speed |-> Dec(5, 0), precipitation |-> 0,
        soil_moisture |-> Dec(50, 0), vegetation_moisture |-> Dec(100, 0),
        vegetation_type |-> "mixed"],
       [temperature |-> Dec(1, 1), humidity |-> Dec(995, 1),
        wind_speed |-> 0, precipitation |-> 0,
        soil_moisture |-> Dec(100, 0), vegetation_moisture |-> Dec(200, 0),
        vegetation_type |-> "deciduous"],
       [temperature |-> Dec(-5, 0), humidity |-> Dec(50, 0),
        wind_speed |-> Dec(50, 0), precipitation |-> Dec(29, 1),
        soil_moisture |-> 0, vegetation_moisture |-> 0,
        vegetation_type |-> "coniferous"],
       [temperature |-> Dec(25, 0), humidity |-> Dec(40, 0),
        wind_speed |-> Dec(10, 0), precipitation |-> Dec(30, 1),
        soil_moisture |-> Dec(50, 0), vegetation_moisture |-> Dec(100, 0),
        vegetation_type |-> "mixed"],
       [temperature |-> Dec(60, 0), humidity |-> 0,
        wind_speed |-> Dec(50, 0), precipitation |-> Dec(15, 0),
        soil_moisture |-> 0, vegetation_moisture |-> 0,
        vegetation_type |-> "coniferous"],
       [temperature |-> 0, humidity |-> 0,
        wind_speed |-> Dec(5, 0), precipitation |-> 0,
        soil_moisture |-> Dec(50, 0), vegetation_moisture |-> Dec(100, 0),
        vegetation_type |-> "deciduous"] >>

\* total number of daily observations processed in one run
MaxDays == 3

\* the FWI of a WeatherData record (main.py passes its five fields)
ObservationFwi(data) ==
    calculate_simplified_fwi(data.temperature, data.humidity, data.wind_speed,
                             data.precipitation, data.vegetation_moisture)

\* composite index and level of an observation with its two indices
DangerAssessment(data, nesterov_index, fwi_index) ==
    LET composite_index == calculate_composite_index(
                               nesterov_index, fwi_index, data.vegetation_type,
                               data.wind_speed, data.soil_moisture)
    IN  [nesterov_index  |-> nesterov_index,
         fwi_index       |-> fwi_index,
         composite_index |-> composite_index,
         danger_level    |-> determine_danger_level(composite_index).level]

\* no HTTP request answered yet
NoResponse == [path |-> "none", request |-> <<>>, status |-> 0, stored |-> 0,
               results |-> <<>>]
NoCall    == [fn |-> "none", args |-> <<>>, result |-> 0]
NoRequest == [fn |-> "none", args |-> <<>>]

Init ==
    /\ pc = "idle"
    /\ pending = NoRequest
    /\ call = NoCall
    /\ probe = NoCall
    /\ acc = [c \in Callers |-> 0]
    /\ log = <<>>
    /\ zones = <<>>
    /\ predictions = <<>>
    /\ response = NoResponse
    /\ invoked = <<>>

(***************************************************************************)
(* Direct calls of the engine functions                                    *)
(***************************************************************************)
\* a first call of some function
Request ==
    /\ pc = "idle"
    /\ \E fn \in Functions : \E a \in CallArgs(fn) :
          pending' = [fn |-> fn, args |-> a]
    /\ pc' = "first"
    /\ UNCHANGED <<call, probe, acc, log, zones, predictions, response, invoked>>

\* the same function is called again with one argument replaced (or, when the
\* new value is the old one, with identical arguments)
Vary ==
    /\ pc = "first"
    /\ pending = NoRequest
    /\ \E i \in DOMAIN call.args : \E v \in ArgDomains(call.fn)[i] :
          pending' = [fn |-> call.fn, args |-> [call.args EXCEPT ![i] = v]]
    /\ probe' = call
    /\ pc' = "varied"
    /\ UNCHANGED <<call, acc, log, zones, predictions, response, invoked>>

\* another call is made before the first one is repeated
Interleave ==
    /\ pc = "first"
    /\ pending = NoRequest
    /\ \E b \in BetweenCalls : pending' = b
    /\ probe' = call
    /\ pc' = "between"
    /\ UNCHANGED <<call, acc, log, zones, predictions, response, invoked>>

\* the first call again, after the call in between
Repeat ==
    /\ pc = "between"
    /\ pending = NoRequest
    /\ pending' = [fn |-> probe.fn, args |-> probe.args]
    /\ pc' = "repeated"
    /\ UNCHANGED <<call, probe, acc, log, zones, predictions, response, invoked>>

\* calculate_simplified_fwi, lines 192-193: the FFMC just returned goes into
\* calculate_isi together with the wind speed it was computed for
ChainIsi ==
    /\ pc = "first"
    /\ pending = NoRequest
    /\ call.fn = "calculate_ffmc"
    /\ pending' = [fn |-> "calculate_isi", args |-> <<call.args[3], call.result>>]
    /\ probe' = call
    /\ pc' = "chained"
    /\ UNCHANGED <<call, acc, log, zones, predictions, response, invoked>>

Return ==
    /\ pc \in {"varied", "repeated", "chained"}
    /\ pending = NoRequest
    /\ pc' = "idle"
    /\ call' = NoCall
    /\ probe' = NoCall
    /\ UNCHANGED <<pending, acc, log, zones, predictions, response, invoked>>

CalculateHumidityDeficit ==
    /\ pending.fn = "calculate_humidity_deficit"
    /\ call' = [fn |-> pending.fn, args |-> pending.args,
                result |-> calculate_humidity_deficit(pending.args[1],
                                                      pending.args[2])]
    /\ pending' = NoRequest
    /\ UNCHANGED <<pc, probe, acc, log, zones, predictions, response, invoked>>

CalculateNesterovIndex ==
    /\ pending.fn = "calculate_nesterov_index"
    /\ call' = [fn |-> pending.fn, args |-> pending.args,
                result |-> calculate_nesterov_index(pending.args[1], pending.args[2],
                                                    pending.args[3], pending.args[4])]
    /\ pending' = NoRequest
    /\ UNCHANGED <<pc, probe, acc, log, zones, predictions, response, invoked>>

CalculateFfmc ==
    /\ pending.fn = "calculate_ffmc"
    /\ call' = [fn |-> pending.fn, args |-> pending.args,
                result |-> calculate_ffmc(pending.args[1], pending.args[2],
                                          pending.args[3], pending.args[4])]
    /\ pending' = NoRequest
    /\ UNCHANGED <<pc, probe, acc, log, zones, predictions, response, invoked>>

CalculateIsi ==
    /\ pending.fn = "calculate_isi"
    /\ call' = [fn |-> pending.fn, args |-> pending.args,
                result |-> calculate_isi(pending.args[1], pending.args[2])]
    /\ pending' = NoRequest
    /\ UNCHANGED <<pc, probe, acc, log, zones, predictions, response, invoked>>

CalculateSimplifiedFwi ==
    /\ pending.fn = "calculate_simplified_fwi"
    /\ call' = [fn |-> pending.fn, args |-> pending.args,
                result |-> calculate_simplified_fwi(
                               pending.args[1], pending.args[2], pending.args[3],
                               pending.args[4], pending.args[5])]
    /\ pending' = NoRequest
    /\ UNCHANGED <<pc, probe, acc, log, zones, predictions, response, invoked>>

CalculateCompositeIndex ==
    /\ pending.fn = "calculate_composite_index"
    /\ call' = [fn |-> pending.fn, args |-> pending.args,
                result |-> calculate_composite_index(
                               pending.args[1], pending.args[2], pending.args[3],
                               pending.args[4], pending.args[5])]
    /\ pending' = NoRequest
    /\ UNCHANGED <<pc, probe, acc, log, zones, predictions, response, invoked>>

DetermineDangerLevel ==
    /\ pending.fn = "determine_danger_level"
    /\ call' = [fn |-> pending.fn, args |-> pending.args,
                result |-> determine_danger_level(pending.args[1])]
    /\ pending' = NoRequest
    /\ UNCHANGED <<pc, probe, acc, log, zones, predictions, response, invoked>>

GetVegetationCoefficient ==
    /\ pending.fn = "get_vegetation_coefficient"
    /\ call' = [fn |-> pending.fn, args |-> pending.args,
                result |-> get_vegetation_coefficient(pending.args[1])]
    /\ pending' = NoRequest
    /\ UNCHANGED <<pc, probe, acc, log, zones, predictions, response, invoked>>

GetRecommendations ==
    /\ pending.fn = "get_recommendations"
    /\ call' = [fn |-> pending.fn, args |-> pending.args,
                result |-> get_recommendations(pending.args[1], pending.args[2])]
    /\ pending' = NoRequest
    /\ UNCHANGED <<pc, probe, acc, log, zones, predictions, response, invoked>>

CalculateFireSpread ==
    /\ pending.fn = "calculateFireSpread"
    /\ call' = [fn |-> pending.fn, args |-> pending.args,
                result |-> calculateFireSpread(pending.args[1], pending.args[2],
                                               pending.args[3], pending.args[4],
                                               pending.args[5])]
    /\ pending' = NoRequest
    /\ UNCHANGED <<pc, probe, acc, log, zones, predictions, response, invoked>>

Next ==
    \/ Request
    \/ Vary
    \/ Interleave
    \/ Repeat
    \/ ChainIsi
    \/ Return
    \/ CalculateHumidityDeficit
    \/ CalculateNesterovIndex
    \/ CalculateFfmc
    \/ CalculateIsi
    \/ CalculateSimplifiedFwi
    \/ CalculateCompositeIndex
    \/ DetermineDangerLevel
    \/ GetVegetationCoefficient
    \/ GetRecommendations
    \/ CalculateFireSpread

Spec == Init /\ [][Next]_vars

(***************************************************************************)
(* Threaded days                                                           *)
(***************************************************************************)
\* caller c has observation i assessed, with the index it holds as
\* previous_index, and keeps the returned Nesterov index for its next day
ThreadedDay ==
    /\ Len(log) < MaxDays
    /\ \E c \in Callers : \E i \in DOMAIN Observations :
       \E nesterov_index \in {calculate_nesterov_index(
                                  Observations[i].temperature,
                                  Observations[i].humidity,
                                  Observations[i].precipitation,
                                  acc[c])} :
       \E fwi_index \in {ObservationFwi(Observations[i])} :
          /\ call' = [fn |-> "assessment", args |-> <<c, i>>,
                      result |-> DangerAssessment(Observations[i],
                                                  nesterov_index, fwi_index)]
          /\ acc' = [acc EXCEPT ![c] = nesterov_index]
          /\ log' = Append(log, <<c, i>>)
    /\ UNCHANGED <<pc, pending, probe, zones, predictions, response, invoked>>

NextThread == ThreadedDay

SpecThread == Init /\ [][NextThread]_vars

(***************************************************************************)
(* Calls with degenerate arguments.  The engine validates nothing, and an  *)
(* infinite precipitation is not below 0: float('inf') passes the only     *)
(* bound WeatherData puts on it.                                           *)
(***************************************************************************)
DegenerateTemps == {Dec(5, 0), Dec(20, 0), Dec(30, 0)}
DegenerateWinds == FwiWinds \cup {Infinity}
DegeneratePrecs == FwiPrecs \cup {Infinity}
DegenerateFfmcs == Ffmcs \cup {NotANumber}

DegenerateArgs(fn) ==
    CASE fn = "calculate_ffmc" ->
            DegenerateTemps \X FwiHums \X DegenerateWinds \X DegeneratePrecs
      [] fn = "calculate_isi"  -> (IsiWinds \cup {Infinity}) \X DegenerateFfmcs
      [] fn = "calculate_simplified_fwi" ->
            DegenerateTemps \X FwiHums \X DegenerateWinds \X DegeneratePrecs
                \X {0, Dec(100, 0)}

\* a call of one of the three functions of the FWI chain
RequestDegenerate ==
    /\ pc = "idle"
    /\ pending = NoRequest
    /\ \E fn \in {"calculate_ffmc", "calculate_isi", "calculate_simplified_fwi"} :
          \E a \in DegenerateArgs(fn) : pending' = [fn |-> fn, args |-> a]
    /\ UNCHANGED <<pc, call, probe, acc, log, zones, predictions, response, invoked>>

NextDegenerate ==
    \/ RequestDegenerate
    \/ CalculateFfmc
    \/ CalculateIsi
    \/ CalculateSimplifiedFwi

SpecDegenerate == Init /\ [][NextDegenerate]_vars

(***************************************************************************)
(* The service: models.py, main.py, database.py                            *)
(***************************************************************************)
\* Variant: precipitation has no lower bound (as it has no upper one)
WeatherDataErrors_unbounded_precipitation(raw) ==
    {f \in {"wind_speed", "temperature", "humidity", "soil_moisture",
            "vegetation_moisture", "vegetation_type"} :
        CASE f = "wind_speed" -> ~(raw.wind_speed >= 0 /\ raw.wind_speed <= Dec(50, 0))
          [] f = "temperature" ->
                ~(raw.temperature >= Dec(-50, 0) /\ raw.temperature <= Dec(60, 0))
          [] f = "humidity" -> ~(raw.humidity >= 0 /\ raw.humidity <= Dec(100, 0))
          [] f = "soil_moisture" ->
                ~(raw.soil_moisture >= 0 /\ raw.soil_moisture <= Dec(100, 0))
          [] f = "vegetation_moisture" ->
                ~(raw.vegetation_moisture >= 0
                  /\ raw.vegetation_moisture <= Dec(200, 0))
          [] f = "vegetation_type" -> raw.vegetation_type \notin VegetationTypes}

\* the constraints of WeatherData (Field(ge=.., le=..)): the fields of raw
\* that violate theirs
WeatherDataErrors(raw) ==
    {f \in {"wind_speed", "temperature", "humidity", "soil_moisture",
            "vegetation_moisture", "precipitation", "vegetation_type"} :
        CASE f = "wind_speed" -> ~(raw.wind_speed >= 0 /\ raw.wind_speed <= Dec(50, 0))
          [] f = "temperature" ->
                ~(raw.temperature >= Dec(-50, 0) /\ raw.temperature <= Dec(60, 0))
          [] f = "humidity" -> ~(raw.humidity >= 0 /\ raw.humidity <= Dec(100, 0))
          [] f = "soil_moisture" ->
                ~(raw.soil_moisture >= 0 /\ raw.soil_moisture <= Dec(100, 0))
          [] f = "vegetation_moisture" ->
                ~(raw.vegetation_moisture >= 0
                  /\ raw.vegetation_moisture <= Dec(200, 0))
          [] f = "precipitation" -> ~(raw.precipitation >= 0)
          [] f = "vegetation_type" -> raw.vegetation_type \notin VegetationTypes}

\* Variant: the index stored last for the location goes in as previous_index
Prediction_carrying(data) ==
    LET earlier == {k \in DOMAIN predictions :
                       predictions[k].location_name = data.location_name}
        previous_index == IF earlier = {} THEN 0
                          ELSE predictions[CHOOSE k \in earlier :
                                              \A j \in earlier : j <= k].nesterov_index
        nesterov_index == calculate_nesterov_index(
                              data.temperature, data.humidity, data.precipitation,
                              previous_index)
        fwi_index      == ObservationFwi(data)
        assessment     == DangerAssessment(data, nesterov_index, fwi_index)
    IN  [location_name       |-> data.location_name,
         temperature         |-> data.temperature,
         humidity            |-> data.humidity,
         wind_speed          |-> data.wind_speed,
         precipitation       |-> data.precipitation,
         soil_moisture       |-> data.soil_moisture,
         vegetation_moisture |-> data.vegetation_moisture,
         vegetation_type     |-> data.vegetation_type,
         nesterov_index      |-> nesterov_index,
         fwi_index           |-> fwi_index,
         composite_index     |-> assessment.composite_index,
         danger_level        |-> assessment.danger_level,
         danger_level_text   |-> determine_danger_level(assessment.composite_index).text]

\* what predict_fire_danger and upload_file compute for a valid observation
\* and hand to save_prediction: the Nesterov index is asked for without a
\* previous_index, which then is 0.0
Prediction(data) ==
    LET nesterov_index == calculate_nesterov_index(
                              data.temperature, data.humidity, data.precipitation, 0)
        fwi_index      == ObservationFwi(data)
        assessment     == DangerAssessment(data, nesterov_index, fwi_index)
    IN  [location_name       |-> data.location_name,
         temperature         |-> data.temperature,
         humidity            |-> data.humidity,
         wind_speed          |-> data.wind_speed,
         precipitation       |-> data.precipitation,
         soil_moisture       |-> data.soil_moisture,
         vegetation_moisture |-> data.vegetation_moisture,
         vegetation_type     |-> data.vegetation_type,
         nesterov_index      |-> nesterov_index,
         fwi_index           |-> fwi_index,
         composite_index     |-> assessment.composite_index,
         danger_level        |-> assessment.danger_level,
         danger_level_text   |-> determine_danger_level(assessment.composite_index).text]

\* the observations requests are made of: two that are valid and four with
\* one field outside its range
Submissions ==
    << [location_name |-> "north"] @@ Observations[1],
       [location_name |-> "north"] @@ Observations[4],
       [location_name |-> "north"] @@ [Observations[1] EXCEPT !.humidity = Dec(120, 0)],
       [location_name |-> "east"] @@ [Observations[1] EXCEPT !.temperature = Dec(61, 0)],
       [location_name |-> "east"] @@ [Observations[1] EXCEPT !.wind_speed = Dec(51, 0)],
       [location_name |-> "east"] @@ [Observations[1] EXCEPT !.precipitation = -Dec(1, 1)],
       [location_name |-> "east"] @@ [Observations[1] EXCEPT !.vegetation_type = "tundra"] >>

\* rows of an uploaded file
MaxRows == 2
\* records stored on behalf of requests
MaxStored == 3

\* the record computed for each of the first n submissions; one that fails
\* validation never gets to the engine and has none
RECURSIVE PredictedUpTo(_)
PredictedUpTo(n) ==
    IF n = 0 THEN <<>>
    ELSE Append(PredictedUpTo(n - 1),
                IF WeatherDataErrors(Submissions[n]) = {}
                THEN Prediction(Submissions[n]) ELSE <<>>)

Predicted == PredictedUpTo(Len(Submissions))

\* the loop of upload_file over the rows from row k on, rows naming
\* submissions: a row that is no WeatherData raises, which ends the loop with
\* the rows before it saved
RECURSIVE UploadedRows(_, _)
\* Variant: all or nothing, a file with a failing row saves no row
UploadedRows_atomic(rows, k) ==
    IF \E j \in k..Len(rows) : WeatherDataErrors(Submissions[rows[j]]) # {} THEN <<>>
    ELSE [j \in 1..(Len(rows) - k + 1) |-> rows[j + k - 1]]

UploadedRows(rows, k) ==
    IF k > Len(rows) \/ WeatherDataErrors(Submissions[rows[k]]) # {} THEN <<>>
    ELSE <<rows[k]>> \o UploadedRows(rows, k + 1)

\* the uploaded files: one that is neither CSV nor Excel, one that lacks a
\* required column, and the CSV files of up to MaxRows rows
Files ==
    {[filename |-> "data.txt", columns |-> TRUE, rows |-> <<>>],
     [filename |-> "data.csv", columns |-> FALSE, rows |-> <<>>]}
    \cup {[filename |-> "data.csv", columns |-> TRUE, rows |-> r] :
            r \in UNION {[1..n -> DOMAIN Submissions] : n \in 1..MaxRows}}

\* the zones of init_mock_data (the first two of its seven)
MockZones == <<"Pavlodar - Centr", "Bayanaul">>
\* synthetic days per zone (the source makes 15)
MockDays == 2
\* draws of the generator: temp in [15, 35], humidity in [20, 80], wind in
\* [1, 15], precip out of 0, 1, 2, 5, 10
MockWeather ==
    << [temp |-> Dec(3004, 2), humidity |-> Dec(20, 0), wind |-> Dec(5, 0), precip |-> 0],
       [temp |-> Dec(3004, 2), humidity |-> Dec(20, 0), wind |-> Dec(1496, 2),
        precip |-> Dec(5, 0)] >>

\* round(x, 1)
Round1(x) == RoundDiv[x, 1000] * 1000

\* Variant: the weather is rounded to 1 decimal before the indices are
\* computed, so that the row holds the inputs of its indices
MockPrediction_of_rounded(zone_name, weather) ==
    LET nesterov  == calculate_nesterov_index(Round1(weather.temp),
                                              Round1(weather.humidity),
                                              weather.precip, 0)
        fwi       == calculate_simplified_fwi(Round1(weather.temp),
                                              Round1(weather.humidity),
                                              Round1(weather.wind), weather.precip,
                                              Dec(100, 0))
        composite == calculate_composite_index(nesterov, fwi, "mixed",
                                               Round1(weather.wind), Dec(50, 0))
        level     == determine_danger_level(composite)
    IN  [location_name       |-> zone_name,
         temperature         |-> Round1(weather.temp),
         humidity            |-> Round1(weather.humidity),
         wind_speed          |-> Round1(weather.wind),
         precipitation       |-> weather.precip,
         soil_moisture       |-> Dec(50, 0),
         vegetation_moisture |-> Dec(100, 0),
         vegetation_type     |-> "mixed",
         nesterov_index      |-> nesterov,
         fwi_index           |-> fwi,
         composite_index     |-> composite,
         danger_level        |-> level.level,
         danger_level_text   |-> level.text]

\* the record init_mock_data inserts for a synthetic day of a zone
MockPrediction(zone_name, weather) ==
    LET nesterov  == calculate_nesterov_index(weather.temp, weather.humidity,
                                              weather.precip, 0)
        fwi       == calculate_simplified_fwi(weather.temp, weather.humidity,
                                              weather.wind, weather.precip,
                                              Dec(100, 0))
        composite == calculate_composite_index(nesterov, fwi, "mixed",
                                               weather.wind, Dec(50, 0))
        level     == determine_danger_level(composite)
    IN  [location_name       |-> zone_name,
         temperature         |-> Round1(weather.temp),
         humidity            |-> Round1(weather.humidity),
         wind_speed          |-> Round1(weather.wind),
         precipitation       |-> weather.precip,
         soil_moisture       |-> Dec(50, 0),
         vegetation_moisture |-> Dec(100, 0),
         vegetation_type     |-> "mixed",
         nesterov_index      |-> nesterov,
         fwi_index           |-> fwi,
         composite_index     |-> composite,
         danger_level        |-> level.level,
         danger_level_text   |-> level.text]

\* the zone and the day of the j-th synthetic record: zone by zone, the days
\* of a zone from the oldest to today
MockZoneOf(j) == MockZones[((j - 1) \div MockDays) + 1]
MockDayOf(j)  == ((j - 1) % MockDays) + 1

\* records stored by requests so far (the synthetic ones are not counted)
StoredByRequests == Len(SelectSeq(invoked, LAMBDA e : e.path # "mock"))

\* Variant: the count of zones is compared with the length of the list of
\* zones instead of 0, so that a second startup seeds once more
AlreadySeeded_above_list(monitoring_zones) ==
    Len(monitoring_zones) > Len(MockZones)

\* SELECT COUNT(*) FROM monitoring_zones ... > 0: the data is there already
AlreadySeeded(monitoring_zones) ==
    Len(monitoring_zones) > 0

\* startup_event: init_database, then init_mock_data, which returns at once
\* when monitoring_zones already has rows
Startup ==
    /\ IF AlreadySeeded(zones)
       THEN UNCHANGED <<zones, predictions, invoked>>
       ELSE \E draw \in [1..(Len(MockZones) * MockDays) -> DOMAIN MockWeather] :
               /\ zones' = zones \o MockZones
               /\ predictions' = predictions \o
                     [j \in 1..(Len(MockZones) * MockDays) |->
                        MockPrediction(MockZoneOf(j), MockWeather[draw[j]])]
               /\ invoked' = invoked \o
                     [j \in 1..(Len(MockZones) * MockDays) |->
                        [path |-> "mock", zone |-> MockZoneOf(j),
                         day |-> MockDayOf(j), data |-> MockWeather[draw[j]]]]
    /\ UNCHANGED <<pc, pending, call, probe, acc, log, response>>

\* POST /api/predict: the body is validated as WeatherData before the handler
\* runs (422); the handler computes, saves and answers
PredictFireDanger ==
    /\ Len(zones) > 0
    /\ StoredByRequests < MaxStored
    /\ \E i \in DOMAIN Submissions :
         IF WeatherDataErrors(Submissions[i]) # {}
         THEN /\ response' = [path |-> "predict", request |-> <<Submissions[i]>>,
                              status |-> 422, stored |-> 0, results |-> <<>>]
              /\ UNCHANGED <<predictions, invoked>>
         ELSE \E result \in {Predicted[i]} :
              /\ predictions' = Append(predictions, result)
              /\ invoked' = Append(invoked, [path |-> "predict",
                                             data |-> Submissions[i]])
              /\ response' = [path |-> "predict", request |-> <<Submissions[i]>>,
                              status |-> 200, stored |-> 1,
                              results |-> <<result>>]
    /\ UNCHANGED <<pc, pending, call, probe, acc, log, zones>>

\* POST /api/upload: 400 for a file of another type or without a required
\* column; otherwise row after row is validated, computed and saved, and the
\* first row that fails ends the request with 500
UploadFile ==
    /\ Len(zones) > 0
    /\ \E file \in Files :
         /\ StoredByRequests + Len(file.rows) <= MaxStored
         /\ IF file.filename # "data.csv" \/ ~file.columns
            THEN /\ response' = [path |-> "upload", request |-> file.rows,
                                 status |-> 400, stored |-> 0, results |-> <<>>]
                 /\ UNCHANGED <<predictions, invoked>>
            ELSE \E accepted \in {UploadedRows(file.rows, 1)} :
                 \E results \in {[k \in 1..Len(accepted) |-> Predicted[accepted[k]]]} :
                 /\ predictions' = predictions \o results
                 /\ invoked' = invoked \o
                       [k \in 1..Len(accepted) |->
                          [path |-> "upload", data |-> Submissions[accepted[k]]]]
                 /\ response' = [path |-> "upload",
                                 request |-> [k \in 1..Len(file.rows) |->
                                                Submissions[file.rows[k]]],
                                 status |-> IF Len(accepted) = Len(file.rows)
                                            THEN 200 ELSE 500,
                                 stored |-> Len(accepted),
                                 results |-> IF Len(accepted) = Len(file.rows)
                                             THEN results ELSE <<>>]
    /\ UNCHANGED <<pc, pending, call, probe, acc, log, zones>>

NextService ==
    \/ Startup
    \/ PredictFireDanger
    \/ UploadFile

SpecService == Init /\ [][NextService]_vars

(***************************************************************************)
(* What a caller has seen                                                  *)
(***************************************************************************)
\* the observations caller c has had assessed, in order
ObservationsOf(c) ==
    LET own == SelectSeq(log, LAMBDA e : e[1] = c)
    IN  [k \in 1..Len(own) |-> Observations[own[k][2]]]

\* a day whose rain resets the index
IsReset(data) == data.precipitation >= Dec(30, 1)

\* the day's contribution to the index, on the grid
Contribution(data) == DailyIncrement(data.temperature, data.humidity)

\* the number of the last reset day among the days obs, 0 when there is none
LastReset(obs) ==
    LET resets == {k \in 1..Len(obs) : IsReset(obs[k])}
    IN  IF resets = {} THEN 0 ELSE CHOOSE k \in resets : \A j \in resets : j <= k

\* the sum of the contributions of the days from + 1 .. to, on the grid
RECURSIVE ExactSum(_, _, _)
ExactSum(obs, from, to) ==
    IF to <= from THEN 0 ELSE ExactSum(obs, from, to - 1) + Contribution(obs[to])

\* the same sum with the total rounded to hundredths after every day
RECURSIVE RoundedSum(_, _, _)
RoundedSum(obs, from, to) ==
    IF to <= from THEN 0
    ELSE Round2(Hundredths(RoundedSum(obs, from, to - 1)) + Contribution(obs[to]))

\* a caller alone: its first n days, threaded from previous_index = 0
RECURSIVE Alone(_, _)
Alone(obs, n) ==
    IF n = 0 THEN 0
    ELSE calculate_nesterov_index(obs[n].temperature, obs[n].humidity,
                                  obs[n].precipitation, Alone(obs, n - 1))

\* two finished direct calls of the same function lie side by side
Compared(fn) ==
    /\ pc \in {"varied", "repeated"}
    /\ pending = NoRequest
    /\ call.fn = fn
    /\ probe.fn = fn

\* ... and agree in the arguments at the positions same
SameAt(same) == \A i \in same : probe.args[i] = call.args[i]

(***************************************************************************)
(* Properties                                                              *)
(***************************************************************************)
\* C1: calculate_nesterov_index returns exactly 0 whenever precipitation is
\* >= 3.0 (3.0 itself included), whatever temperature, humidity and
\* previous_index are, a large or a negative previous_index included.
C1_ResetOnRain ==
    (call.fn = "calculate_nesterov_index" /\ call.args[3] >= Dec(30, 1))
        => call.result = 0

\* a warm dry day at exactly 3.0 mm with the largest previous_index returned 0
C1_Witness ==
    /\ call.fn = "calculate_nesterov_index"
    /\ call.args = <<Dec(30, 0), Dec(20, 0), Dec(30, 1), 100000 * 100>>
    /\ call.result = 0

\* C2 (as stated): threaded from 0, the index a caller holds equals the sum of
\* the daily contributions since its most recent reset day.
C2_ExactSum ==
    \A c \in Callers :
        LET obs == ObservationsOf(c)
        IN  acc[c] = Round2(ExactSum(obs, LastReset(obs), Len(obs)))

\* C2 (amended): threaded from 0, the index a caller holds is the sum of the
\* daily contributions since its most recent reset day with the running total
\* rounded to two decimals after every day, so it lies within 0.005 per day of
\* the exact sum; it is 0 on a reset day, and no day before the last reset
\* enters it.
C2_RoundedSum ==
    \A c \in Callers :
        LET obs  == ObservationsOf(c)
            from == LastReset(obs)
            gap  == Hundredths(acc[c]) - ExactSum(obs, from, Len(obs))
        IN  /\ acc[c] = RoundedSum(obs, from, Len(obs))
            /\ gap <= Dec(5, 3) * (Len(obs) - from)
            /\ -gap <= Dec(5, 3) * (Len(obs) - from)
            /\ (from = Len(obs) => acc[c] = 0)

\* a caller accumulated, was reset, and accumulated again
C2_Witness ==
    \E c \in Callers :
        LET obs == ObservationsOf(c)
        IN  /\ Len(obs) = 3
            /\ Contribution(obs[1]) > 0
            /\ IsReset(obs[2])
            /\ acc[c] > 0
            /\ acc[c] = Round2(Contribution(obs[3]))

\* C3: determine_danger_level maps every composite index, negative ones and
\* ones far above 75 included, to exactly one of low, medium, high, extreme:
\* low below 20, medium on [20, 50), high on [50, 75), extreme from 75 on.
C3_Partition ==
    call.fn = "determine_danger_level" =>
        LET c     == call.args[1]
            level == call.result.level
        IN  /\ level \in DangerLevels
            /\ level = "low"     <=> c < 20 * 100
            /\ level = "medium"  <=> (20 * 100 <= c /\ c < 50 * 100)
            /\ level = "high"    <=> (50 * 100 <= c /\ c < 75 * 100)
            /\ level = "extreme" <=> c >= 75 * 100

\* an index far above 75 was classified
C3_Witness ==
    /\ call.fn = "determine_danger_level"
    /\ call.args[1] = 1000 * 100
    /\ call.result.level = "extreme"

\* C4: a threshold belongs to the band that starts at it: 20 is medium,
\* 50 is high, 75 is extreme.
C4_Thresholds ==
    call.fn = "determine_danger_level" =>
        /\ call.args[1] = 20 * 100 => call.result.level = "medium"
        /\ call.args[1] = 50 * 100 => call.result.level = "high"
        /\ call.args[1] = 75 * 100 => call.result.level = "extreme"

\* the index 75.00 itself was classified
C4_Witness ==
    /\ call.fn = "determine_danger_level"
    /\ call.args[1] = 75 * 100
    /\ call.result.level = "extreme"

\* C5: calculate_humidity_deficit is 0 for every temperature <= 0; for a
\* temperature > 0 it is (100 - humidity) * e_s / 100 clamped at 0, hence 0
\* for humidity >= 100, and it is never negative.
C5_Deficit ==
    call.fn = "calculate_humidity_deficit" =>
        LET temperature == call.args[1]
            humidity    == call.args[2]
        IN  /\ call.result >= 0
            /\ temperature <= 0 => call.result = 0
            /\ (temperature > 0 /\ humidity >= Dec(100, 0)) => call.result = 0
            /\ (temperature > 0 /\ humidity < Dec(100, 0)) =>
                  call.result = Div[Mul[Dec(100, 0) - humidity,
                                        SaturatedVapour[temperature]],
                                    Dec(100, 0)]

\* a warm day with humidity above 100: the clamp acted
C5_Witness ==
    /\ call.fn = "calculate_humidity_deficit"
    /\ call.args = <<Dec(30, 0), Dec(120, 0)>>
    /\ call.result = 0

\* C6: with in-range observations and every accumulator threaded from 0, the
\* Nesterov index, the simplified FWI and the composite index are >= 0 in
\* every reachable state.
C6_NonNegative ==
    /\ \A c \in Callers : acc[c] >= 0
    /\ call.fn = "assessment" =>
          /\ call.result.nesterov_index >= 0
          /\ call.result.fwi_index >= 0
          /\ call.result.composite_index >= 0

\* a caller holds a positive index and the last assessment was of a day with
\* more than 10 mm of rain, whose FWI is 0
C6_Witness ==
    /\ \E c \in Callers : acc[c] > 0
    /\ call.fn = "assessment"
    /\ Observations[call.args[2]].precipitation > Dec(10, 0)
    /\ call.result.fwi_index = 0
    /\ call.result.composite_index = 0

C11_IsiOfFfmc ==
    /\ (pc = "chained" /\ pending = NoRequest) =>
          /\ probe.fn = "calculate_ffmc"
          /\ call.fn = "calculate_isi"
          /\ call.args = <<probe.args[3], probe.result>>
          /\ Dec(595, 1) + Hundredths(probe.result) > 0
          /\ IsiMoisture[probe.result] > 0
          /\ call.result # NotANumber
          /\ call.result >= 0
    /\ (/\ call.fn = "calculate_isi"
        /\ call.args[2] >= 0
        /\ call.args[2] <= 100 * 100) =>
          /\ Dec(595, 1) + Hundredths(call.args[2]) > 0
          /\ IsiMoisture[call.args[2]] > 0
          /\ call.result >= 0

\* the FFMC of the hottest, driest, windiest day, 100.00, went into the ISI
C11_Witness ==
    /\ pc = "chained"
    /\ pending = NoRequest
    /\ probe.args = <<Dec(60, 0), 0, Dec(50, 0), 0>>
    /\ probe.result = 100 * 100
    /\ call.fn = "calculate_isi"
    /\ call.result > 0

\* C12: calculate_ffmc returns a value in [0, 100].
C12_FfmcRange ==
    call.fn = "calculate_ffmc" =>
        /\ call.result >= 0
        /\ call.result <= 100 * 100

\* a day on which the upper clamp acts (the unclamped value is 101.05), and
\* the call was made directly
C12_Witness ==
    /\ pc = "first"
    /\ call.fn = "calculate_ffmc"
    /\ call.args = <<Dec(60, 0), 0, Dec(50, 0), 0>>
    /\ call.result = 100 * 100

\* C13: get_vegetation_coefficient is 1.5 for coniferous, 1.25 for mixed,
\* 1.0 for deciduous, and 1.0 for anything else.
C13_Coefficients ==
    call.fn = "get_vegetation_coefficient" =>
        LET v == call.args[1]
        IN  /\ v = "coniferous" => call.result = Dec(15, 1)
            /\ v = "mixed" => call.result = Dec(125, 2)
            /\ v = "deciduous" => call.result = Dec(10, 1)
            /\ v \notin VegetationTypes => call.result = Dec(10, 1)

\* a string that names no vegetation type got the default
C13_Witness ==
    /\ call.fn = "get_vegetation_coefficient"
    /\ call.args = <<"tundra">>
    /\ call.result = Dec(10, 1)

\* C14: get_recommendations depends on the level alone: each of the four
\* levels has one ordered list of 3 to 7 lines whatever composite_index is,
\* and any other level has the empty list.
C14_FixedMapping ==
    /\ call.fn = "get_recommendations" =>
          /\ call.args[1] \in DangerLevels =>
                (Len(call.result) >= 3 /\ Len(call.result) <= 7)
          /\ call.args[1] \notin DangerLevels => call.result = <<>>
    /\ (Compared("get_recommendations") /\ SameAt({1})) =>
          probe.result = call.result

\* the low level was asked for with two different indices, one of them in
\* the extreme band, and got its three lines both times
C14_Witness ==
    /\ Compared("get_recommendations")
    /\ probe.args[1] = "low"
    /\ call.args[1] = "low"
    /\ probe.args[2] # call.args[2]
    /\ call.args[2] = 75 * 100
    /\ Len(call.result) = 3
    /\ probe.result = call.result

\* C15 (as stated): the label returned with a level is its English name:
\* "Low", "Medium", "High", "Extreme".
C15_EnglishLabels ==
    call.fn = "determine_danger_level" =>
        call.result.text = (CASE call.result.level = "low"     -> "Low"
                              [] call.result.level = "medium"  -> "Medium"
                              [] call.result.level = "high"    -> "High"
                              [] call.result.level = "extreme" -> "Extreme")

\* C15 (amended): label and colour are functions of the level only: the label
\* is the Russian word for the level, the colour is #22c55e, #eab308,
\* #f97316, #ef4444 for low, medium, high, extreme, the colour the report
\* generator draws the level in.
C15_LabelAndColor ==
    call.fn = "determine_danger_level" =>
        LET level == call.result.level
        IN  /\ call.result.text =
                  (CASE level = "low"     -> "Nizkij"
                     [] level = "medium"  -> "Srednij"
                     [] level = "high"    -> "Vysokij"
                     [] level = "extreme" -> "Chrezvychajnyj")
            /\ call.result.color =
                  (CASE level = "low"     -> "#22c55e"
                     [] level = "medium"  -> "#eab308"
                     [] level = "high"    -> "#f97316"
                     [] level = "extreme" -> "#ef4444")
            /\ call.result.color = get_danger_color(level)

\* an index in the medium band got the medium label and colour
C15_Witness ==
    /\ call.fn = "determine_danger_level"
    /\ call.args[1] = 4999
    /\ call.result = [level |-> "medium", text |-> "Srednij", color |-> "#eab308"]

\* C20: on a day with precipitation < 3.0 the index a caller threads never
\* decreases, and on such a day with temperature <= 0 it stays what it was,
\* whatever the humidity: the value returned is previous_index.
C20_ColdDayUnchanged ==
    [][\A c \in Callers :
          (Len(log') = Len(log) + 1 /\ log'[Len(log')][1] = c) =>
             LET data == Observations[log'[Len(log')][2]]
             IN  data.precipitation < Dec(30, 1) =>
                    /\ acc'[c] >= acc[c]
                    /\ call'.result.nesterov_index = acc'[c]
                    /\ data.temperature <= 0 => acc'[c] = acc[c]]_vars

\* a caller holding a positive index had a frosty day with 2.9 mm of rain
\* assessed and holds the same index
C20_Witness ==
    /\ Len(log) >= 2
    /\ LET c    == log[Len(log)][1]
           data == Observations[log[Len(log)][2]]
       IN  /\ data.temperature < 0
           /\ data.precipitation = Dec(29, 1)
           /\ acc[c] > 0
           /\ call.result.nesterov_index = acc[c]
           /\ \E k \in 1..(Len(log) - 1) :
                 /\ log[k][1] = c
                 /\ Contribution(Observations[log[k][2]]) > 0

\* the ranges (and the vegetation classes) the observation fields are declared
\* with
InDeclaredRanges(data) ==
    /\ data.temperature >= Dec(-50, 0) /\ data.temperature <= Dec(60, 0)
    /\ data.humidity >= 0 /\ data.humidity <= Dec(100, 0)
    /\ data.wind_speed >= 0 /\ data.wind_speed <= Dec(50, 0)
    /\ data.precipitation >= 0
    /\ data.soil_moisture >= 0 /\ data.soil_moisture <= Dec(100, 0)
    /\ data.vegetation_moisture >= 0 /\ data.vegetation_moisture <= Dec(200, 0)
    /\ data.vegetation_type \in VegetationTypes

\* the first row of a request that is outside what is declared, 0 if none
FirstRejected(request) ==
    LET bad == {k \in DOMAIN request : ~InDeclaredRanges(request[k])}
    IN  IF bad = {} THEN 0 ELSE CHOOSE k \in bad : \A j \in bad : k <= j

\* C16: an observation with a field outside its declared range is rejected
\* before the engine is called, on /api/predict and on /api/upload: the
\* engine is only invoked with in-range observations, only in-range
\* observations are stored, and a request with such an observation fails
\* (422 or 500) having stored exactly the rows before it.
C16_RejectedBeforeEngine ==
    /\ \A k \in DOMAIN invoked :
          invoked[k].path # "mock" => InDeclaredRanges(invoked[k].data)
    /\ \A k \in DOMAIN predictions : InDeclaredRanges(predictions[k])
    /\ FirstRejected(response.request) > 0 =>
          /\ response.status = (IF response.path = "predict" THEN 422 ELSE 500)
          /\ response.stored = FirstRejected(response.request) - 1
          /\ Len(invoked) >= response.stored
          /\ \A j \in 1..response.stored :
                /\ invoked[Len(invoked) - response.stored + j].data = response.request[j]
                /\ predictions[Len(predictions) - response.stored + j].humidity
                      = response.request[j].humidity

\* an uploaded file whose first row is valid and whose second row has the
\* humidity 120: the first row is stored, the request fails
C16_Witness ==
    /\ response.path = "upload"
    /\ response.status = 500
    /\ response.stored = 1
    /\ Len(response.request) = 2
    /\ response.request[2].humidity = Dec(120, 0)
    /\ predictions[Len(predictions)].humidity = response.request[1].humidity

\* C17: on /api/predict and /api/upload the stored Nesterov index of a request
\* or row is the index of its own temperature, humidity and precipitation
\* with previous_index = 0, whatever was stored before it.
C17_NoCarryOver ==
    \A k \in DOMAIN predictions :
        invoked[k].path # "mock" =>
            /\ predictions[k].nesterov_index =
                  calculate_nesterov_index(predictions[k].temperature,
                                           predictions[k].humidity,
                                           predictions[k].precipitation, 0)
            /\ \A j \in DOMAIN predictions :
                  (/\ invoked[j].path # "mock"
                   /\ predictions[j].temperature = predictions[k].temperature
                   /\ predictions[j].humidity = predictions[k].humidity
                   /\ predictions[j].precipitation = predictions[k].precipitation)
                     => predictions[j].nesterov_index = predictions[k].nesterov_index

\* the same warm dry day of one location was stored by a prediction and then
\* by an upload, with the same positive index both times
C17_Witness ==
    \E k \in DOMAIN predictions :
        /\ k + 1 \in DOMAIN predictions
        /\ invoked[k].path = "predict"
        /\ invoked[k + 1].path = "upload"
        /\ invoked[k].data = invoked[k + 1].data
        /\ predictions[k].location_name = predictions[k + 1].location_name
        /\ predictions[k].nesterov_index > 0
        /\ predictions[k + 1].nesterov_index = predictions[k].nesterov_index

\* C18 (as stated): in the synthetic history of a zone the index of a day is
\* computed with the index of the zone's day before as previous_index (0 for
\* the first day).
C18_MockThreaded ==
    \A j \in DOMAIN invoked :
        invoked[j].path = "mock" =>
            predictions[j].nesterov_index =
                calculate_nesterov_index(
                    invoked[j].data.temp, invoked[j].data.humidity,
                    invoked[j].data.precip,
                    IF invoked[j].day = 1 THEN 0
                    ELSE predictions[j - 1].nesterov_index)


(***************************************************************************)
(* C19: for a spread input with E > 0 (for example E = 0.5, v = 2,         *)
(* rho = 12, W = 15, t = 1) calculateFireSpread returns v1 > 0,            *)
(* v2 = 0.35 * v1 + 0.17, v3 = 0.10 * v1 + 0.20, a positive perimeter, a   *)
(* positive area, and areaHa = area / 10000 (the area in 10^-8 m2 over     *)
(* 100 is the area in 10^-10 ha).                                          *)
(***************************************************************************)
C19_SpreadResult ==
    (call.fn = "calculateFireSpread" /\ call.args[1] > 0) =>
        /\ call.result.v1 > 0
        /\ call.result.v2 = Mul[Dec(35, 2), call.result.v1] + Dec(17, 2)
        /\ call.result.v3 = Mul[Dec(10, 2), call.result.v1] + Dec(20, 2)
        /\ call.result.v2 > 0
        /\ call.result.v3 > 0
        /\ call.result.perimeter > 0
        /\ call.result.area > 0
        /\ call.result.areaHa = RoundDiv[call.result.area, 100]

\* the scenario E = 0.5, v = 2, rho = 12, W = 15, t = 1: v1 = 3.8022,
\* perimeter = 10.29 m, area = 4.2354e-4 m2
C19_Witness ==
    /\ call.fn = "calculateFireSpread"
    /\ call.args = <<Dec(5, 1), Dec(2, 0), Dec(12, 0), Dec(15, 0), Dec(1, 0)>>
    /\ call.result.v1 = Dec(38022, 4)
    /\ call.result.perimeter = Dec(1029, 2)
    /\ call.result.area = 42354
    /\ call.result.areaHa = 424


(***************************************************************************)
(* C21: calculate_simplified_fwi applies exactly one temperature           *)
(* correction to isi * vegetation factor * precipitation factor: the       *)
(* factor 1 + (temperature - 25) * 0.02 above 25 degrees, temperature / 10 *)
(* between 3 and 10 degrees, exactly 0.3 at 3 degrees and below (all       *)
(* temperatures <= 0 included), none from 10 to 25 degrees; the result is  *)
(* not negative.                                                           *)
(***************************************************************************)
C21_TemperatureCorrection ==
    call.fn = "calculate_simplified_fwi" =>
        LET temperature == call.args[1]
            fwi == UncorrectedFwi(call.args[1], call.args[2], call.args[3],
                                  call.args[4], call.args[5])
            factor == IF temperature <= Dec(3, 0) THEN Dec(3, 1)
                      ELSE IF temperature < Dec(10, 0) THEN temperature \div 10
                      ELSE IF temperature <= Dec(25, 0) THEN Scale
                      ELSE Scale + (temperature - Dec(25, 0)) \div 50
        IN  /\ call.result >= 0
            /\ call.result = CorrectedFwi[fwi, factor]

\* a call at 0 degrees or below whose index is positive: 0.3 of the
\* uncorrected index is returned
C21_Witness ==
    /\ call.fn = "calculate_simplified_fwi"
    /\ call.args[1] <= 0
    /\ call.result > 0
    /\ call.result = CorrectedFwi[UncorrectedFwi(call.args[1], call.args[2],
                                                 call.args[3], call.args[4],
                                                 call.args[5]), Dec(3, 1)]


(***************************************************************************)
(* C22: in calculate_simplified_fwi the precipitation factor is            *)
(* max(0, 1 - precipitation / 10) and the vegetation factor is             *)
(* max(0.3, 1 - vegetation_moisture / 200): the returned index is 0 for    *)
(* every precipitation of 10 mm or more, and the vegetation factor is      *)
(* exactly 0.3 from a vegetation moisture of 140 upwards and above 0.3     *)
(* below it.                                                               *)
(***************************************************************************)
C22_Factors ==
    call.fn = "calculate_simplified_fwi" =>
        LET precipitation == call.args[4]
            vegetation_moisture == call.args[5]
            isi == calculate_isi(call.args[3],
                                 calculate_ffmc(call.args[1], call.args[2],
                                                call.args[3], call.args[4]))
            vegetation_factor ==
                IF vegetation_moisture >= Dec(140, 0) THEN Dec(3, 1)
                ELSE Scale - vegetation_moisture \div 200
            precipitation_factor ==
                IF precipitation >= Dec(10, 0) THEN 0
                ELSE Scale - precipitation \div 10
        IN  /\ precipitation >= Dec(10, 0) => call.result = 0
            /\ vegetation_factor >= Dec(3, 1)
            /\ call.result =
                   CorrectedFwi[Mul[Mul[Hundredths(isi), vegetation_factor],
                                    precipitation_factor],
                                TemperatureFactor[call.args[1]]]

\* a call with 10 mm of rain or more and a vegetation moisture of 140 or more
\* returned 0; the same call without rain returns a positive index, 0.3 of
\* the spread index
C22_Witness ==
    /\ pc = "varied"
    /\ probe.fn = "calculate_simplified_fwi"
    /\ probe.args[4] >= Dec(10, 0)
    /\ probe.args[5] >= Dec(140, 0)
    /\ probe.result = 0
    /\ call.fn = "calculate_simplified_fwi"
    /\ call.args[4] = 0
    /\ call.args[1] = Dec(20, 0)
    /\ call.result > 0
    /\ call.result = Round2(Mul[Hundredths(calculate_isi(call.args[3],
                           calculate_ffmc(call.args[1], call.args[2],
                                          call.args[3], call.args[4]))),
                                Dec(3, 1)])


(***************************************************************************)
(* C23: calculate_composite_index saturates its two inputs: a Nesterov     *)
(* index raised above 10000 or an FWI raised above 100 leaves the result   *)
(* unchanged, and with a wind speed of at most 5 m/s and a soil moisture   *)
(* within [0, 100] the composite index never exceeds 100 times the         *)
(* vegetation coefficient.                                                 *)
(***************************************************************************)
C23_Saturation ==
    /\ (call.fn = "calculate_composite_index"
            /\ call.args[4] <= Dec(5, 0)
            /\ call.args[5] >= 0 /\ call.args[5] <= Dec(100, 0)) =>
           call.result <= Round2(100 * get_vegetation_coefficient(call.args[3]))
    /\ (pc = "varied" /\ call.fn = "calculate_composite_index"
            /\ probe.fn = "calculate_composite_index") =>
           /\ (\A i \in {2, 3, 4, 5} : call.args[i] = probe.args[i])
                  /\ call.args[1] >= 10000 * 100 /\ probe.args[1] >= 10000 * 100
                  => call.result = probe.result
           /\ (\A i \in {1, 3, 4, 5} : call.args[i] = probe.args[i])
                  /\ call.args[2] >= 100 * 100 /\ probe.args[2] >= 100 * 100
                  => call.result = probe.result

\* a Nesterov index of 10000 raised to 20000 with an FWI of 100, calm wind and
\* dry soil: both calls return 100 times the vegetation coefficient
C23_Witness ==
    /\ pc = "varied"
    /\ probe.fn = "calculate_composite_index"
    /\ call.fn = "calculate_composite_index"
    /\ probe.args[1] = 10000 * 100
    /\ call.args[1] = 20000 * 100
    /\ call.args[2] = 100 * 100
    /\ call.args[4] = Dec(5, 0)
    /\ call.args[5] = 0
    /\ call.result = probe.result
    /\ call.result = Round2(100 * get_vegetation_coefficient(call.args[3]))


C25_Propagates ==
    /\ (call.fn = "calculate_ffmc"
            /\ FuelMoisture(call.args[1], call.args[2], call.args[3],
                            call.args[4]) = NotANumber) =>
           call.result = NotANumber
    /\ (call.fn = "calculate_isi"
            /\ SpreadIndex[call.args[1], IsiMoisture[call.args[2]]]
                   \in {NotANumber, Infinity}) =>
           call.result = SpreadIndex[call.args[1], IsiMoisture[call.args[2]]]
    /\ (call.fn = "calculate_simplified_fwi"
            /\ UncorrectedFwi(call.args[1], call.args[2], call.args[3],
                              call.args[4], call.args[5])
                   \in {NotANumber, Infinity}) =>
           call.result = UncorrectedFwi(call.args[1], call.args[2], call.args[3],
                                        call.args[4], call.args[5])


(***************************************************************************)
(* C26 as claimed: every row of the predictions table is self-consistent:  *)
(* its danger_level and danger_level_text are what determine_danger_level  *)
(* returns for its composite_index, and its composite_index is             *)
(* calculate_composite_index of its own nesterov_index, fwi_index,         *)
(* vegetation type, wind speed and soil moisture.                          *)
(***************************************************************************)
C26_SelfConsistent ==
    \A k \in DOMAIN predictions :
        LET row == predictions[k]
        IN  /\ row.danger_level = determine_danger_level(row.composite_index).level
            /\ row.danger_level_text = determine_danger_level(row.composite_index).text
            /\ row.composite_index =
                   calculate_composite_index(row.nesterov_index, row.fwi_index,
                                             row.vegetation_type, row.wind_speed,
                                             row.soil_moisture)

(***************************************************************************)
(* C26: in every row of the predictions table danger_level and             *)
(* danger_level_text are what determine_danger_level returns for the row's *)
(* composite_index.  The composite_index of a row saved by a prediction or *)
(* an upload is calculate_composite_index of the row's own fields; that of *)
(* a seeded row is calculate_composite_index of the row's indices, mixed   *)
(* vegetation, soil moisture 50 and the wind speed as drawn, of which the  *)
(* row keeps only the value rounded to 1 decimal.                          *)
(***************************************************************************)
C26_ConsistentWithInputs ==
    /\ Len(invoked) = Len(predictions)
    /\ \A k \in DOMAIN predictions :
        LET row == predictions[k]
        IN  /\ row.danger_level = determine_danger_level(row.composite_index).level
            /\ row.danger_level_text = determine_danger_level(row.composite_index).text
            /\ row.composite_index =
                   calculate_composite_index(
                       row.nesterov_index, row.fwi_index, row.vegetation_type,
                       IF invoked[k].path = "mock" THEN invoked[k].data.wind
                       ELSE row.wind_speed,
                       row.soil_moisture)
            /\ invoked[k].path = "mock" =>
                   /\ row.wind_speed = Round1(invoked[k].data.wind)
                   /\ row.vegetation_type = "mixed"
                   /\ row.soil_moisture = Dec(50, 0)

\* the table holds a seeded row whose wind was rounded for storage, a row of a
\* single prediction and a row of an upload
C26_Witness ==
    /\ \E k \in DOMAIN predictions :
          /\ invoked[k].path = "mock"
          /\ predictions[k].wind_speed # invoked[k].data.wind
          /\ predictions[k].composite_index #
                 calculate_composite_index(
                     predictions[k].nesterov_index, predictions[k].fwi_index,
                     predictions[k].vegetation_type, predictions[k].wind_speed,
                     predictions[k].soil_moisture)
    /\ \E k \in DOMAIN predictions : invoked[k].path = "predict"
    /\ \E k \in DOMAIN predictions : invoked[k].path = "upload"


(***************************************************************************)
(* C27: a batch upload is not atomic.  Rows are validated, computed and    *)
(* committed one at a time in file order: when row k fails (a value out of *)
(* range, an unknown vegetation type) the request ends with an error       *)
(* response without a result list, rows 1..k-1 are added to the            *)
(* predictions table and stay there, and the rows after k are not          *)
(* processed.                                                              *)
(***************************************************************************)
C27_NotAtomic ==
    [][(response'.path = "upload" /\ response'.status = 500) =>
          LET request == response'.request
              k == FirstRejected(request)
              saved == [j \in 1..(k - 1) |->
                          Predicted[CHOOSE i \in DOMAIN Submissions :
                                       Submissions[i] = request[j]]]
          IN  /\ k > 0
              /\ response'.results = <<>>
              /\ response'.stored = k - 1
              /\ predictions' = predictions \o saved
              /\ \A j \in 1..(k - 1) :
                    /\ saved[j].temperature = request[j].temperature
                    /\ saved[j].location_name = request[j].location_name
              /\ invoked' = invoked \o
                    [j \in 1..(k - 1) |-> [path |-> "upload", data |-> request[j]]]
      ]_vars

\* an upload of two rows, the second of an unknown vegetation type, failed:
\* its first row is the last row of the table
C27_Witness ==
    /\ response.path = "upload"
    /\ response.status = 500
    /\ response.results = <<>>
    /\ Len(response.request) = 2
    /\ response.request[2].vegetation_type = "tundra"
    /\ response.stored = 1
    /\ Len(predictions) > Len(MockZones) * MockDays
    /\ predictions[Len(predictions)].temperature = response.request[1].temperature
    /\ invoked[Len(invoked)] = [path |-> "upload", data |-> response.request[1]]

\* the place of a danger level in the order low < medium < high < extreme
LevelRank(level) ==
    CASE level = "low"     -> 1
      [] level = "medium"  -> 2
      [] level = "high"    -> 3
      [] level = "extreme" -> 4

(***************************************************************************)
(* C28: the danger level is monotone in the composite index: of two        *)
(* composite values a <= b the level of a is not more severe than the      *)
(* level of b in the order low < medium < high < extreme; and raising      *)
(* nesterov_index, fwi_index or wind_speed alone never lowers the level    *)
(* determined for the composite index of an assessment.                    *)
(***************************************************************************)
C28_LevelMonotone ==
    /\ (/\ Compared("determine_danger_level")
        /\ probe.args[1] <= call.args[1])
           => LevelRank(probe.result.level) <= LevelRank(call.result.level)
    /\ (/\ Compared("calculate_composite_index")
        /\ SameAt({3, 5})
        /\ \A i \in {1, 2, 4} : probe.args[i] <= call.args[i])
           => LevelRank(determine_danger_level(probe.result).level)
                 <= LevelRank(determine_danger_level(call.result).level)

\* the wind rose over a negative base: the composite index fell, the level
\* stayed low
C28_Witness ==
    /\ Compared("calculate_composite_index")
    /\ SameAt({1, 2, 3, 5})
    /\ probe.args[4] < call.args[4]
    /\ call.result < probe.result
    /\ determine_danger_level(probe.result).level = "low"
    /\ determine_danger_level(call.result).level = "low"

\* the rows of the table that init_mock_data inserted for a zone
SeededRows(table, calls, zone) ==
    {k \in DOMAIN table : calls[k].path = "mock" /\ table[k].location_name = zone}

(***************************************************************************)
(* C29: startup seeding is idempotent.  init_mock_data inserts the         *)
(* monitoring zones and the daily predictions of each zone only when       *)
(* monitoring_zones is empty: whatever runs, and however often startup     *)
(* runs, the zones are there once, each zone has its seeded predictions    *)
(* once, and a step taken with zones present changes no existing row.      *)
(***************************************************************************)
C29_SeedingIdempotent ==
    [][/\ zones' = MockZones
       /\ \A z \in {MockZones[j] : j \in DOMAIN MockZones} :
             Cardinality(SeededRows(predictions', invoked', z)) = MockDays
       /\ \A k \in DOMAIN predictions : /\ k \in DOMAIN predictions'
                                        /\ predictions'[k] = predictions[k]
       /\ zones # <<>> =>
             \A k \in DOMAIN predictions' \ DOMAIN predictions :
                 invoked'[k].path # "mock"
      ]_vars

\* the zones are seeded and the table has grown by user predictions, single
\* and uploaded, after which startup is still enabled
C29_Witness ==
    /\ zones = MockZones
    /\ Len(predictions) = Len(MockZones) * MockDays + MaxStored
    /\ \A k \in 1..(Len(MockZones) * MockDays) : invoked[k].path = "mock"
    /\ \E k \in DOMAIN invoked : invoked[k].path = "predict"
    /\ \E k \in DOMAIN invoked : invoked[k].path = "upload"
    /\ ENABLED Startup

=============================================================================
